---- MODULE Spec2Model ----
(***************************************************************************)
(* M8 Kit Creator: the kit assembly pipeline of                            *)
(* m8_kitcreator/audio_processor.py (AudioProcessor) and the Octatrack     *)
(* metadata writer of m8_kitcreator/octatrack_writer.py (OctatrackWriter). *)
(*                                                                         *)
(* An audio segment is modelled by its frame count, channel count and      *)
(* frame rate; the sample values only matter to the silence detector,      *)
(* whose verdict is part of each source file's description.  Files are     *)
(* byte sequences (1-based: file offset o is index o + 1).                 *)
(* A tempo is kept in tenths of a BPM (120.0 BPM is 1200).                 *)
(*                                                                         *)
(* TLC's integers are 32-bit signed, so an unsigned 32-bit field that can  *)
(* hold 0xFFFFFFFF (a slice's loop point) is kept as its two 16-bit halves *)
(* <<hi, lo>>.                                                             *)
(***************************************************************************)
EXTENDS Integers, Sequences, FiniteSets, TLC

(***************************************************************************)
(* Bounds of the exploration.                                              *)
(***************************************************************************)
\* longest file list whose files are chosen freely
MaxFiles == 2
\* number of add_slice calls whose arguments are chosen freely
MaxApiSlices == 2
\* length in ms of each non-silent burst of a "bursts" source file
BurstMs == 50
\* length in ms of the silence a "lead" source file begins with
LeadMs == 500
\* most files picked in one file dialog
MaxGuiFiles == 2

(***************************************************************************)
(* Program constants.                                                      *)
(***************************************************************************)
DEFAULT_MARKER_DURATION_MS == 1
DEFAULT_MIN_SILENCE_LEN == 10
DEFAULT_RETAINED_SILENCE == 1
FILE_SIZE == 832
HEADER_SIZE == 16
MAX_SLICES == 64
\* DEFAULT_TEMPO = 120.0 BPM, in tenths of a BPM
DEFAULT_TEMPO == 1200
DEFAULT_GAIN == 0
DEFAULT_LOOP_TYPE == 0
DEFAULT_STRETCH == 0
DEFAULT_QUANTIZE == 0
\* the sample_rate default of OctatrackWriter.__init__
DEFAULT_SAMPLE_RATE == 44100
\* split_on_silence's keep_silence, left at the library default by the call
keep_silence == 100
\* a header whose form size is written little-endian
HEADER_MAGIC_swapped == <<70, 79, 82, 77, 44, 3, 0, 0, 68, 80, 83, 49, 83, 77, 80, 65>>
\* HEADER_MAGIC = b'FORM\x00\x00\x03,DPS1SMPA'
HEADER_MAGIC == <<70, 79, 82, 77, 0, 0, 3, 44, 68, 80, 83, 49, 83, 77, 80, 65>>
\* config.py, audio validation limits
MIN_SAMPLE_RATE == 8000
MAX_SAMPLE_RATE == 192000
MIN_CHANNELS == 1
MAX_CHANNELS == 8
MIN_SAMPLE_WIDTH == 1
MAX_SAMPLE_WIDTH == 4
\* config.WAV_EXTENSION, ".wav", as character codes
WAV_EXTENSION == <<46, 119, 97, 118>>
\* config.py, the error messages of validate_wav_file
ERROR_NOT_WAV == "Not a WAV file (wrong extension)"
ERROR_FILE_NOT_FOUND == "File does not exist"
ERROR_PERMISSION_DENIED == "Cannot read file (permission denied)"
ERROR_FILE_EMPTY == "File is empty"
ERROR_INVALID_CHANNELS == "Unsupported channel count: {}"
ERROR_INVALID_SAMPLE_WIDTH == "Unsupported sample width: {} bytes"
ERROR_INVALID_SAMPLE_RATE == "Unsupported sample rate: {} Hz"
ERROR_INVALID_WAV == "Invalid WAV file: {}"
ERROR_CANNOT_READ == "Cannot read file: {}"
\* config.py, the texts of the status label
STATUS_READY == "Ready"
STATUS_PROCESSING == "Processing file {} of {}..."
STATUS_COMPLETE == "Complete!"
\* config.MSG_SUCCESS_TITLE
MSG_SUCCESS_TITLE == "Success"
OUTPUT_FORMAT_M8 == "M8"
OUTPUT_FORMAT_OCTATRACK == "Octatrack"
OUTPUT_FORMAT_BOTH == "Both"

(***************************************************************************)
(* Arithmetic helpers.                                                     *)
(***************************************************************************)
Min(a, b) == IF a < b THEN a ELSE b
Max(a, b) == IF a > b THEN a ELSE b

RECURSIVE SumSeq(_)
SumSeq(s) == IF s = <<>> THEN 0 ELSE Head(s) + SumSeq(Tail(s))

\* Python 3 round() of the quotient a / b (a >= 0, b > 0): nearest integer,
\* ties to the even one
RoundHalfEven(a, b) ==
    LET q == a \div b
        r == a % b
    IN  IF 2 * r < b THEN q
        ELSE IF 2 * r > b THEN q + 1
        ELSE IF q % 2 = 0 THEN q ELSE q + 1

(***************************************************************************)
(* Audio segments (pydub.AudioSegment as used by the pipeline).            *)
(***************************************************************************)
Segment(frames, channels, frame_rate) ==
    [frames |-> frames, channels |-> channels, frame_rate |-> frame_rate]

\* AudioSegment.empty(): no data, 1 channel, frame rate 1
EmptySegment == Segment(0, 1, 1)

\* len(get_array_of_samples()): one sample per frame and channel
SampleCount(seg) == seg.frames * seg.channels

\* len(segment): its duration in whole ms, round(1000 * frames / frame_rate)
\* (exact arithmetic; it agrees with the floating-point computation on every
\* length met here)
LenMs(seg) == RoundHalfEven(1000 * seg.frames, seg.frame_rate)

\* the frame a millisecond position falls on: int(ms * (frame_rate / 1000.0)),
\* truncated towards zero
FrameAtMs(ms, frame_rate) ==
    IF ms >= 0 THEN (ms * frame_rate) \div 1000
    ELSE 0 - (((0 - ms) * frame_rate) \div 1000)

\* the frames of data[start:end], start and end being frame indexes (a
\* negative end counts from the back, as Python slices do)
PresentFrames(seg, sf, ef) ==
    Max(0, (IF ef < 0 THEN Max(0, seg.frames + ef) ELSE Min(ef, seg.frames))
             - Min(sf, seg.frames))

\* "ensure the output is as long as the requester is expecting": the frames
\* missing from the data are filled with silence (copies of the first frame
\* zeroed, so none when there is no data).  More than frame_count(ms=2)
\* missing frames would raise, but a slice is short only by the frames
\* len() rounds up by, less than 1 ms of them.
FillMissing(seg, expected, got) ==
    Segment(IF expected > got /\ got > 0 THEN expected ELSE got,
            seg.channels, seg.frame_rate)

\* segment[start:end] once start and end are frame indexes
SliceFrames(seg, sf, ef) ==
    FillMissing(seg, ef - sf, PresentFrames(seg, sf, ef))

\* segment[start_ms:end_ms] for 0 <= start_ms, 0 <= end_ms
GetSlice(seg, start_ms, end_ms) ==
    SliceFrames(seg,
                FrameAtMs(Min(start_ms, LenMs(seg)), seg.frame_rate),
                FrameAtMs(Min(end_ms, LenMs(seg)), seg.frame_rate))

\* segment[:-ms]: Python evaluates -0 to 0, so segment[:-0] is segment[:0];
\* otherwise the end is len(segment) - ms milliseconds
DropLastMs(seg, ms) ==
    IF ms = 0 THEN GetSlice(seg, 0, 0)
    ELSE SliceFrames(seg, 0, FrameAtMs(LenMs(seg) - ms, seg.frame_rate))

\* AudioSegment.silent(duration, frame_rate): int(frame_rate * (duration /
\* 1000.0)) frames of mono silence
Silent(duration, frame_rate) ==
    Segment((frame_rate * duration) \div 1000, 1, frame_rate)

\* segment.set_channels(n): same frames, n channels
SetChannels(seg, n) == Segment(seg.frames, n, seg.frame_rate)

\* seg1 + seg2 (AudioSegment.append without crossfade): both are first brought
\* to the larger channel count and frame rate, then the data is joined.  The
\* segments the pipeline joins share their frame rate, except the empty one.
append(seg1, seg2) ==
    Segment(seg1.frames + seg2.frames,
            Max(seg1.channels, seg2.channels),
            Max(seg1.frame_rate, seg2.frame_rate))

(***************************************************************************)
(* Source files.  A file is described by what loading it gives: whether it *)
(* decodes, its frame count, channels and frame rate, and the shape of its *)
(* content as the silence detector sees it: "loud" (no silence run),       *)
(* "silent" (silence throughout) or "bursts" (BurstMs of sound at each     *)
(* end, silence between).                                                  *)
(***************************************************************************)
SourceFile(loads, frames, channels, frame_rate, shape) ==
    [loads |-> loads, frames |-> frames, channels |-> channels,
     frame_rate |-> frame_rate, shape |-> shape]

\* AudioSegment.from_wav(file_path)
from_wav(file) == Segment(file.frames, file.channels, file.frame_rate)

\* pydub.silence.detect_nonsilent: the [start, end] ms ranges that are not
\* silent.  A segment shorter than min_silence_len has no silent range.
detect_nonsilent(file, seg, min_silence_len) ==
    LET n == LenMs(seg)
    IN  IF n < min_silence_len \/ file.shape = "loud" THEN << <<0, n>> >>
        ELSE IF file.shape = "silent" THEN << >>
        ELSE IF file.shape = "lead"
             THEN IF n > LeadMs THEN << <<LeadMs, n>> >> ELSE << >>
        ELSE IF n >= 2 * BurstMs + min_silence_len
             THEN << <<0, BurstMs>>, <<n - BurstMs, n>> >>
             ELSE << <<0, n>> >>

\* ranges that are cut at the non-silent parts, nothing kept around them
SplitRanges_no_keep_silence(ns) == ns

\* the ranges split_on_silence slices at: each non-silent range widened by
\* keep_silence on both sides, two ranges that then overlap meeting half way
SplitRanges(ns) ==
    LET lo(j) == ns[j][1] - keep_silence
        hi(j) == ns[j][2] + keep_silence
    IN  [j \in 1..Len(ns) |->
            << IF j > 1 /\ lo(j) < hi(j - 1)
               THEN (hi(j - 1) + lo(j)) \div 2 ELSE lo(j),
               IF j < Len(ns) /\ lo(j + 1) < hi(j)
               THEN (hi(j) + lo(j + 1)) \div 2 ELSE hi(j) >>]

\* audio_segment[max(start, 0) : min(end, len(audio_segment))]
Piece(seg, range) == GetSlice(seg, Max(range[1], 0), Min(range[2], LenMs(seg)))

\* the chunks at the ranges, each given by its frame count
SliceAt(seg, ranges) ==
    [j \in 1..Len(ranges) |-> Piece(seg, ranges[j]).frames]

\* pydub.silence.split_on_silence(audio, silence_thresh, min_silence_len)
split_on_silence(file, seg, min_silence_len) ==
    SliceAt(seg, SplitRanges(detect_nonsilent(file, seg, min_silence_len)))

(***************************************************************************)
(* AudioProcessor helpers.                                                 *)
(***************************************************************************)
\* sum([chunk + retain_silence for chunk in chunks], AudioSegment.empty()),
\* the chunks given by their frame counts
RECURSIVE JoinChunks(_, _, _)
JoinChunks(chunks, like, retain_silence) ==
    IF chunks = << >> THEN EmptySegment
    ELSE append(JoinChunks(SubSeq(chunks, 1, Len(chunks) - 1), like, retain_silence),
                append(Segment(chunks[Len(chunks)], like.channels, like.frame_rate),
                       retain_silence))

\* a branch that gives an empty buffer when there is no chunk
ProcessChunks_empty_without_chunks(audio, split, retain_silence, retained_silence_ms) ==
    IF split # << >>
    THEN [chunks |-> split,
          audio |-> DropLastMs(JoinChunks(split, audio, retain_silence),
                               retained_silence_ms)]
    ELSE [chunks |-> split, audio |-> EmptySegment]

\* the branch of _process_silence on the chunk list: joined with the pad
\* and cut by [:-retained_silence] if there are chunks, else the audio as
\* it was
ProcessChunks(audio, split, retain_silence, retained_silence_ms) ==
    IF split # << >>
    THEN [chunks |-> split,
          audio |-> DropLastMs(JoinChunks(split, audio, retain_silence),
                               retained_silence_ms)]
    ELSE [chunks |-> split, audio |-> audio]

\* AudioProcessor._process_silence(audio, retain_silence): the processed
\* segment, and the chunk list the splitter gave
_process_silence(file, audio, retain_silence, retained_silence_ms) ==
    ProcessChunks(audio,
                  split_on_silence(file, audio, DEFAULT_MIN_SILENCE_LEN),
                  retain_silence, retained_silence_ms)

\* AudioProcessor._calculate_frame_position(audio)
_calculate_frame_position(audio) == SampleCount(audio) \div audio.channels

(***************************************************************************)
(* Byte encodings (struct.pack).                                           *)
(***************************************************************************)
\* an unsigned 32-bit value as its 16-bit halves <<hi, lo>>
U32(n) == <<n \div 65536, n % 65536>>
\* what the '<L' / '>I' formats accept: 0 .. 2^32 - 1
FitsU32(n) == n >= 0 /\ n \div 65536 < 65536
\* what the '>H' format accepts
FitsU16(n) == n >= 0 /\ n < 65536
\* what a bytearray element accepts
FitsU8(n) == n >= 0 /\ n < 256

\* struct.pack('>I', v), v given as <<hi, lo>>
PackBE32(v) == <<v[1] \div 256, v[1] % 256, v[2] \div 256, v[2] % 256>>
\* struct.pack('>H', n)
PackBE16(n) == <<n \div 256, n % 256>>
\* struct.pack('<L', n)
PackLE32(n) ==
    <<n % 256, (n \div 256) % 256, (n \div 65536) % 256, (n \div 16777216) % 256>>

\* struct.pack('<L', v), v given as <<hi, lo>>
PackLE32H(v) == <<v[2] % 256, v[2] \div 256, v[1] % 256, v[1] \div 256>>

\* struct.pack_into(fmt, data, offset, v): the bytes of v written at offset
pack_into(data, offset, bytes) ==
    [k \in 1..Len(data) |->
        IF k > offset /\ k <= offset + Len(bytes) THEN bytes[k - offset]
        ELSE data[k]]

(***************************************************************************)
(* OctatrackWriter.  A writer is a record of the fields __init__ sets      *)
(* (output_path aside).  A slice keeps start and end as integers and loop  *)
(* as <<hi, lo>>.                                                          *)
(***************************************************************************)
\* 0xFFFFFFFF, the "no loop" value
NO_LOOP == <<65535, 65535>>

\* OctatrackWriter.__init__
OctatrackWriter(sample_rate, total_samples, tempo, gain, loop_type, stretch, quantize) ==
    [sample_rate |-> sample_rate,
     total_samples |-> total_samples, tempo |-> tempo, gain |-> gain,
     loop_type |-> loop_type, stretch |-> stretch, quantize |-> quantize,
     slices |-> << >>]

\* the writer before any is constructed
NoWriter ==
    OctatrackWriter(DEFAULT_SAMPLE_RATE, 0, DEFAULT_TEMPO, DEFAULT_GAIN, DEFAULT_LOOP_TYPE,
                    DEFAULT_STRETCH, DEFAULT_QUANTIZE)

\* a limit check that lets one slice too many in
add_slice_raises_late(w) == Len(w.slices) > MAX_SLICES

\* add_slice raises ValueError when MAX_SLICES slices are stored
add_slice_raises(w) == Len(w.slices) >= MAX_SLICES

\* an add_slice whose missing loop point becomes the slice's start
add_slice_loop_at_start(w, start_point, end_point, loop_point) ==
    [w EXCEPT !.slices =
        Append(@, [start |-> start_point, end |-> end_point,
                   loop |-> IF loop_point = << >> THEN U32(start_point)
                            ELSE U32(loop_point[1])])]

\* OctatrackWriter.add_slice(start_point, end_point, loop_point) when it does
\* not raise; loop_point is << >> for None and <<v>> for a value v
add_slice(w, start_point, end_point, loop_point) ==
    [w EXCEPT !.slices =
        Append(@, [start |-> start_point, end |-> end_point,
                   loop |-> IF loop_point = << >> THEN NO_LOOP
                            ELSE U32(loop_point[1])])]

\* a bars length without the 0.25 minimum
bars_length_no_minimum(w) ==
    IF w.total_samples = 0 \/ w.sample_rate = 0 THEN 4
    ELSE RoundHalfEven(w.total_samples * w.tempo, w.sample_rate * 600)

\* OctatrackWriter._calculate_bars_length(), in quarters of a bar (the
\* code's value times 4, which is always whole)
_calculate_bars_length(w) ==
    IF w.total_samples = 0 \/ w.sample_rate = 0 THEN 4
    ELSE Max(1, RoundHalfEven(w.total_samples * w.tempo, w.sample_rate * 600))

\* tempo_value = int(self.tempo * 6), the tempo in tenths of a BPM
tempo_value(w) == (w.tempo * 6) \div 10

\* trim_length_value = int(bars_length * 384)
trim_length_value(w) == _calculate_bars_length(w) * 96

\* loop_length_value = int(loop_length * 384), loop_length = bars_length
loop_length_value(w) == _calculate_bars_length(w) * 96

\* a gain written without its offset
gain_value_raw(w) == w.gain

\* gain_value = int(self.gain + 48)
gain_value(w) == w.gain + 48

\* OctatrackWriter._calculate_checksum(data): the bytes at offsets
\* 16 .. FILE_SIZE - 3 summed, masked to 16 bits
\* (the range is halved at each step to keep the evaluation shallow)
RECURSIVE SumBytes(_, _, _)
SumBytes(data, from, to) ==
    IF from > to THEN 0
    ELSE IF from = to THEN data[from]
    ELSE LET mid == (from + to) \div 2
         IN  SumBytes(data, from, mid) + SumBytes(data, mid + 1, to)

\* a checksum that takes in the header as well
checksum_with_header(data) == SumBytes(data, 1, FILE_SIZE - 2) % 65536

_calculate_checksum(data) == SumBytes(data, 16 + 1, FILE_SIZE - 2) % 65536

\* the bytes write() puts at the 12 bytes of slice_data: start, end and
\* loop, 32 bits each
slice_bytes(slice_data) ==
    PackBE32(U32(slice_data.start)) \o PackBE32(U32(slice_data.end))
        \o PackBE32(slice_data.loop)

\* write() raises inside its try block (struct.error, ValueError or, when
\* output_path cannot be opened for writing, the error of open) and returns
\* False
write_fails(w, path_ok) ==
    \/ ~FitsU32(tempo_value(w))
    \/ ~FitsU32(trim_length_value(w))
    \/ ~FitsU32(w.stretch)
    \/ ~FitsU32(w.loop_type)
    \/ ~FitsU16(gain_value(w))
    \/ ~FitsU8(w.quantize)
    \/ ~FitsU32(w.total_samples)
    \/ \E k \in 1..Len(w.slices) :
          ~FitsU32(w.slices[k].start) \/ ~FitsU32(w.slices[k].end)
    \/ ~path_ok

\* byte k (1-based) lies in the field of n bytes at offset
InField(k, offset, n) == k > offset /\ k <= offset + n

\* the bytearray write() builds before the checksum is set: FILE_SIZE zero
\* bytes into which the header and each field are packed at their offsets
\* (the fields do not overlap; slice j, from 0, goes to 0x38 + 12 * j)
write_fields(w) ==
    [k \in 1..FILE_SIZE |->
        IF k > 56
        THEN IF InField(k, 56, 12 * Len(w.slices))
             THEN slice_bytes(w.slices[((k - 57) \div 12) + 1])[((k - 57) % 12) + 1]
             ELSE 0
        ELSE IF InField(k, 0, 16) THEN HEADER_MAGIC[k]
        ELSE IF InField(k, 16, 4) THEN PackBE32(U32(tempo_value(w)))[k - 16]
        ELSE IF InField(k, 20, 4) THEN PackBE32(U32(trim_length_value(w)))[k - 20]
        ELSE IF InField(k, 24, 4) THEN PackBE32(U32(loop_length_value(w)))[k - 24]
        ELSE IF InField(k, 28, 4) THEN PackBE32(U32(w.stretch))[k - 28]
        ELSE IF InField(k, 32, 4) THEN PackBE32(U32(w.loop_type))[k - 32]
        ELSE IF InField(k, 36, 2) THEN PackBE16(gain_value(w))[k - 36]
        ELSE IF InField(k, 38, 1) THEN w.quantize
        ELSE IF InField(k, 40, 4) THEN PackBE32(U32(0))[k - 40]
        ELSE IF InField(k, 44, 4) THEN PackBE32(U32(w.total_samples))[k - 44]
        ELSE IF InField(k, 48, 4) THEN PackBE32(U32(0))[k - 48]
        ELSE IF InField(k, 52, 4) THEN PackBE32(U32(Len(w.slices)))[k - 52]
        ELSE 0]

\* the bytes write() writes to output_path: the fields, then the checksum
\* packed at 0x33E
write_data(w) ==
    LET data == write_fields(w)
    IN  pack_into(data, 830, PackBE16(_calculate_checksum(data)))

(***************************************************************************)
(* The cue chunk of AudioProcessor._add_cue_points.                        *)
(***************************************************************************)
\* b'cue ' and b'data'
CUE_TAG == <<99, 117, 101, 32>>
DATA_TAG == <<100, 97, 116, 97>>

\* a cue record whose sample offset is left at zero
cue_record_no_sample_offset(cue_id, position) ==
    PackLE32(cue_id) \o PackLE32H(position) \o DATA_TAG \o PackLE32(0)
        \o PackLE32(0) \o PackLE32(0)

\* struct.pack('<LL4sLLL', cue_id, position, b'data', 0, 0, position), the
\* position given as <<hi, lo>>
cue_record(cue_id, position) ==
    PackLE32(cue_id) \o PackLE32H(position) \o DATA_TAG \o PackLE32(0)
        \o PackLE32(0) \o PackLE32H(position)

\* frame positions as <<hi, lo>> halves, hi * 65536 + lo: the form in which
\* positions up to and beyond 2^32 are written in this module
Halves(positions) == [k \in 1..Len(positions) |-> U32(positions[k])]

\* the records of cue_positions[1..n], ids counting from 1
RECURSIVE cue_records(_, _)
cue_records(positions, n) ==
    IF n = 0 THEN << >>
    ELSE cue_records(positions, n - 1) \o cue_record(n, positions[n])

\* cue_chunk_data: the number of cue points, then the records
cue_chunk_data(positions) ==
    PackLE32(Len(positions)) \o cue_records(positions, Len(positions))

\* cue_chunk = b'cue ' + struct.pack('<L', len(cue_chunk_data)) + cue_chunk_data
cue_chunk(positions) ==
    CUE_TAG \o PackLE32(Len(cue_chunk_data(positions))) \o cue_chunk_data(positions)

\* a struct.pack that never raises
cue_pack_never_fails(positions) == FALSE

\* struct.pack raises struct.error on a position outside 0 .. 2^32 - 1
cue_pack_fails(positions) ==
    \E k \in 1..Len(positions) : positions[k][1] < 0 \/ positions[k][1] >= 65536

(***************************************************************************)
(* State.                                                                  *)
(***************************************************************************)
VARIABLES
    pc,                  \* where the client stands: in concatenate_audio_files
                         \* ("loop", "export", "cue", "ot", "success", "done")
                         \* or using an OctatrackWriter directly ("api")
    result,              \* what the last call gave: "none", "True", "False",
                         \* or the exception it raised
    marker_duration_ms,  \* AudioProcessor.marker_duration_ms
    retained_silence,    \* AudioProcessor.retained_silence
    force_mono,          \* AudioProcessor.force_mono
    file_paths,          \* the files given, in order
    output_format,       \* the output_format argument
    i,                   \* number of loop iterations completed
    target_channels,     \* 0 while None
    marker,              \* the marker segment (empty while None)
    retain_silence,      \* the retained-silence pad (empty while None)
    concatenated_audio,
    cue_positions,
    chunks,              \* chunk frame counts of the last _process_silence
    processed_audio,     \* what the last _process_silence returned
    wav_file,            \* the output WAV on disk
    ot_file,             \* the bytes of the .ot file on disk, << >> if none
    ot_writer,           \* the OctatrackWriter in use
    progress_callback,   \* whether a progress_callback is supplied
    total_files,         \* len(file_paths) as taken before the loop
    progress_calls,      \* the (current, total) calls of progress_callback
    dialogs,             \* the message boxes shown, with the thread showing
    app,                 \* the caller: "none" when concatenate_audio_files
                         \* is called directly, "writer" when an
                         \* OctatrackWriter is used directly, "utils" when
                         \* a helper is called directly, "processor" when
                         \* _add_cue_points is called directly, else the GUI,
                         \* which is "idle" or "merging"
    file_names,          \* the GUI's list of file names, parallel to its
                         \* file_paths
    buttons_enabled,     \* the state _set_buttons_enabled gave the buttons
    after_queue,         \* the callbacks handed to self.after(0, ...), in order
    progress_bar,        \* the (current, total) the progress bar shows
    status_label,        \* the text of the status label
    call_arg             \* the argument of a helper that is called directly:
                         \* the file validate_wav_file is given, the cue
                         \* positions _add_cue_points is given; << >> otherwise

vars ==
    <<pc, result, marker_duration_ms, retained_silence, force_mono, file_paths,
      output_format, i, target_channels, marker, retain_silence,
      concatenated_audio, cue_positions, chunks, processed_audio, wav_file,
      ot_file, ot_writer, progress_callback, total_files, progress_calls,
      dialogs, app, file_names, buttons_enabled, after_queue, progress_bar,
      status_label, call_arg>>

config_vars ==
    <<marker_duration_ms, retained_silence, force_mono, file_paths, output_format,
      progress_callback, total_files, call_arg>>

loop_vars ==
    <<i, target_channels, marker, retain_silence, concatenated_audio,
      cue_positions, chunks, processed_audio>>

\* what concatenate_audio_files reports besides its result
report_vars == <<progress_calls, dialogs>>

\* the state of the FileSelectorApp window (its file list is file_paths)
gui_vars ==
    <<app, file_names, buttons_enabled, after_queue, progress_bar, status_label>>

\* the AudioProcessor's settings and the arguments of a call other than
\* the file list
processor_vars ==
    <<marker_duration_ms, retained_silence, force_mono, output_format, progress_callback,
      call_arg>>

\* the state of a call of concatenate_audio_files
call_vars ==
    <<pc, result, total_files, loop_vars, wav_file, ot_file, ot_writer, report_vars>>

\* no output WAV on disk
NoWav == [exists |-> FALSE, nframes |-> 0, nchannels |-> 0, sampwidth |-> 0,
          framerate |-> 0, riff_size |-> 0, data |-> <<"none", 0>>,
          extra |-> << >>]

\* the frames of an audio file: whose audio they are and how many bytes
Frames(of, nbytes) == <<of, nbytes>>

\* a reader that reads the parameters and no frame
wave_read_no_frames(file) ==
    [nchannels |-> file.nchannels, sampwidth |-> file.sampwidth,
     framerate |-> file.framerate, nframes |-> file.nframes,
     data |-> Frames(file.data[1], 0)]

\* wave.open(path, 'rb'): getparams() and readframes(params.nframes)
wave_read(file) ==
    [nchannels |-> file.nchannels, sampwidth |-> file.sampwidth,
     framerate |-> file.framerate, nframes |-> file.nframes,
     data |-> Frames(file.data[1],
                     Min(file.data[2], file.nframes * file.nchannels * file.sampwidth))]

\* wave.open(path, 'wb') with setparams(params) and writeframes(data): the
\* 44-byte header, its sizes taken from the frames written, then the frames
wave_write(params, data) ==
    [exists |-> TRUE,
     nframes |-> data[2] \div (params.nchannels * params.sampwidth),
     nchannels |-> params.nchannels, sampwidth |-> params.sampwidth,
     framerate |-> params.framerate,
     riff_size |-> 36 + data[2], data |-> data, extra |-> << >>]

(***************************************************************************)
(* utils.validate_wav_file.                                                *)
(***************************************************************************)
\* what validate_wav_file can see of a path: the last characters of the
\* path, whether it is a file, whether it may be read, its size in bytes,
\* what wave.open does with it ("ok", "wave.Error" or another "exception")
\* and the parameters of its header
DiskFile(path, is_file, readable, size, header, nchannels, sampwidth, framerate) ==
    [path |-> path, is_file |-> is_file, readable |-> readable, size |-> size,
     header |-> header, nchannels |-> nchannels, sampwidth |-> sampwidth,
     framerate |-> framerate]

\* str.lower() on character codes
lower(name) ==
    [k \in 1..Len(name) |-> IF name[k] >= 65 /\ name[k] <= 90 THEN name[k] + 32 ELSE name[k]]

\* str.endswith(suffix)
endswith(str, suffix) ==
    /\ Len(str) >= Len(suffix)
    /\ SubSeq(str, Len(str) - Len(suffix) + 1, Len(str)) = suffix

\* a message of config.py with the value its {} is filled with
Message(text, arg) == [text |-> text, arg |-> arg]

\* (True, None)
ValidResult == <<TRUE, Message("None", "None")>>

\* parameter checks that accept any sample rate up to the maximum
validate_params_no_minimum_rate(f) ==
    IF f.nchannels < MIN_CHANNELS \/ f.nchannels > MAX_CHANNELS
    THEN <<FALSE, Message(ERROR_INVALID_CHANNELS, f.nchannels)>>
    ELSE IF f.sampwidth < MIN_SAMPLE_WIDTH \/ f.sampwidth > MAX_SAMPLE_WIDTH
    THEN <<FALSE, Message(ERROR_INVALID_SAMPLE_WIDTH, f.sampwidth)>>
    ELSE IF f.framerate > MAX_SAMPLE_RATE
    THEN <<FALSE, Message(ERROR_INVALID_SAMPLE_RATE, f.framerate)>>
    ELSE ValidResult

\* validate_wav_file, lines 54-65 and 72: the checks of the header's
\* parameters
validate_params(f) ==
    IF f.nchannels < MIN_CHANNELS \/ f.nchannels > MAX_CHANNELS
    THEN <<FALSE, Message(ERROR_INVALID_CHANNELS, f.nchannels)>>
    ELSE IF f.sampwidth < MIN_SAMPLE_WIDTH \/ f.sampwidth > MAX_SAMPLE_WIDTH
    THEN <<FALSE, Message(ERROR_INVALID_SAMPLE_WIDTH, f.sampwidth)>>
    ELSE IF f.framerate < MIN_SAMPLE_RATE \/ f.framerate > MAX_SAMPLE_RATE
    THEN <<FALSE, Message(ERROR_INVALID_SAMPLE_RATE, f.framerate)>>
    ELSE ValidResult

\* validate_wav_file(file_path): (is_valid, error_message)
validate_wav_file(f) ==
    IF ~endswith(lower(f.path), WAV_EXTENSION)
    THEN <<FALSE, Message(ERROR_NOT_WAV, "None")>>
    ELSE IF ~f.is_file
    THEN <<FALSE, Message(ERROR_FILE_NOT_FOUND, "None")>>
    ELSE IF ~f.readable
    THEN <<FALSE, Message(ERROR_PERMISSION_DENIED, "None")>>
    ELSE IF f.size = 0
    THEN <<FALSE, Message(ERROR_FILE_EMPTY, "None")>>
    ELSE IF f.header = "wave.Error"
    THEN <<FALSE, Message(ERROR_INVALID_WAV, f.header)>>
    ELSE IF f.header # "ok"
    THEN <<FALSE, Message(ERROR_CANNOT_READ, f.header)>>
    ELSE validate_params(f)

(***************************************************************************)
(* The inputs explored.                                                    *)
(***************************************************************************)
SeqsUpTo(S, n) == UNION {[1..k -> S] : k \in 0..n}

\* source files at 8000 Hz: one that cannot be decoded, an empty one, and
\* files whose length is not a whole number of ms
Files8000 ==
    { SourceFile(FALSE, 0, 1, 8000, "loud"),
      SourceFile(TRUE, 0, 1, 8000, "loud"),
      SourceFile(TRUE, 86, 2, 8000, "loud"),
      SourceFile(TRUE, 85, 1, 8000, "loud"),
      SourceFile(TRUE, 160, 1, 8000, "silent") }

\* source files at 11025 Hz (11.025 frames per ms)
Files11025 ==
    { SourceFile(TRUE, 80, 1, 11025, "loud"),
      SourceFile(TRUE, 441, 1, 11025, "loud"),
      SourceFile(TRUE, 3200, 2, 11025, "bursts") }

\* the WAV files the user of the GUI picks from, with the character codes
\* of their names: "K" and "h" are valid and share their frame rate, "s"
\* passes validate_wav_file and is gone when the merge loads it, "x" is
\* no WAV file
GuiDisk ==
    { [name |-> <<75>>, path |-> SourceFile(TRUE, 80, 1, 11025, "loud"),
       disk |-> DiskFile(<<46, 119, 97, 118>>, TRUE, TRUE, 204, "ok", 1, 2, 11025)],
      [name |-> <<104>>, path |-> SourceFile(TRUE, 441, 1, 11025, "loud"),
       disk |-> DiskFile(<<46, 87, 65, 86>>, TRUE, TRUE, 926, "ok", 1, 2, 11025)],
      [name |-> <<115>>, path |-> SourceFile(FALSE, 160, 2, 11025, "loud"),
       disk |-> DiskFile(<<46, 119, 97, 118>>, TRUE, TRUE, 684, "ok", 2, 2, 11025)],
      [name |-> <<120>>, path |-> SourceFile(FALSE, 0, 1, 11025, "loud"),
       disk |-> DiskFile(<<46, 119, 97, 118>>, TRUE, TRUE, 12, "wave.Error", 0, 0, 0)] }

\* the files validate_wav_file is given directly: paths ending in ".wav",
\* ".WAV" and ".mp3"; a path that is no file; files that may not be read;
\* empty files; files wave.open rejects; and headers with parameters at
\* and beyond the limits
ValidateFiles ==
    UNION { { DiskFile(path, FALSE, FALSE, 0, "exception", 0, 0, 0),
              DiskFile(path, TRUE, FALSE, 0, "exception", 0, 0, 0),
              DiskFile(path, TRUE, FALSE, 44, "exception", 0, 0, 0),
              DiskFile(path, TRUE, TRUE, 0, "exception", 0, 0, 0),
              DiskFile(path, TRUE, TRUE, 44, "exception", 0, 0, 0),
              DiskFile(path, TRUE, TRUE, 44, "wave.Error", 0, 0, 0) }
            \cup { DiskFile(path, TRUE, TRUE, 44, "ok", ch, sw, rate) :
                     ch \in {1, 8, 9}, sw \in {1, 4, 5},
                     rate \in {7999, 8000, 192000, 192001} } :
            path \in { <<46, 119, 97, 118>>, <<46, 87, 65, 86>>, <<46, 109, 112, 51>> } }

\* one-second mono files at 44100 Hz, one of them beginning with silence
Files44100 ==
    { SourceFile(TRUE, 44100, 1, 44100, "lead"),
      SourceFile(TRUE, 44100, 1, 44100, "loud") }

\* kits of MAX_SLICES and MAX_SLICES + 1 equal files
LongKits ==
    { [k \in 1..n |-> SourceFile(TRUE, 80, 1, 11025, "loud")] :
        n \in {MAX_SLICES, MAX_SLICES + 1} }

\* the writers a direct user of OctatrackWriter constructs
ApiWriters ==
    { OctatrackWriter(sr, total, tempo, gain, mode[1], mode[2], mode[3]) :
        sr \in {0, DEFAULT_SAMPLE_RATE},
        total \in {0, 1, 55125, 66150, 176400},
        tempo \in {DEFAULT_TEMPO, 1201, 905},
        gain \in {DEFAULT_GAIN, 24, -49},
        mode \in { <<DEFAULT_LOOP_TYPE, DEFAULT_STRETCH, DEFAULT_QUANTIZE>>,
                   <<2, 1, 255>>, <<1, 2, 16>> } }

\* the writer whose user goes on adding slices up to the limit
LongRunWriter ==
    OctatrackWriter(DEFAULT_SAMPLE_RATE, 176400, DEFAULT_TEMPO, DEFAULT_GAIN,
                    DEFAULT_LOOP_TYPE, DEFAULT_STRETCH, DEFAULT_QUANTIZE)

\* the (start_point, end_point, loop_point) arguments chosen freely
ApiSliceArgs ==
    { <<0, 44100, << >> >>, <<44100, 88200, <<22050>> >>, <<70000, 300, << >> >> }

(***************************************************************************)
(* Initial states: a call of concatenate_audio_files about to enter its    *)
(* loop (lines 86-97 done), or a freshly constructed OctatrackWriter.      *)
(***************************************************************************)
InitKit ==
    /\ pc = "loop"
    /\ \/ /\ marker_duration_ms \in {0, DEFAULT_MARKER_DURATION_MS}
          /\ retained_silence \in {0, DEFAULT_RETAINED_SILENCE}
          /\ force_mono \in BOOLEAN
          /\ output_format \in {"None", OUTPUT_FORMAT_M8,
                                 OUTPUT_FORMAT_OCTATRACK, OUTPUT_FORMAT_BOTH}
          /\ file_paths \in SeqsUpTo(Files8000, MaxFiles)
                                \cup SeqsUpTo(Files11025, MaxFiles)
          /\ progress_callback = FALSE
       \/ /\ marker_duration_ms = DEFAULT_MARKER_DURATION_MS
          /\ retained_silence = DEFAULT_RETAINED_SILENCE
          /\ force_mono = FALSE
          /\ output_format \in {"None", OUTPUT_FORMAT_OCTATRACK}
          /\ file_paths \in SeqsUpTo(Files8000, MaxFiles)
          /\ progress_callback = TRUE
       \/ /\ marker_duration_ms = DEFAULT_MARKER_DURATION_MS
          /\ retained_silence = DEFAULT_RETAINED_SILENCE
          /\ force_mono = FALSE
          /\ output_format \in {OUTPUT_FORMAT_OCTATRACK, OUTPUT_FORMAT_BOTH}
          /\ file_paths \in LongKits
          /\ progress_callback = FALSE
       \/ /\ marker_duration_ms = DEFAULT_MARKER_DURATION_MS
          /\ retained_silence = DEFAULT_RETAINED_SILENCE
          /\ force_mono = FALSE
          /\ output_format = OUTPUT_FORMAT_BOTH
          /\ file_paths \in SeqsUpTo(Files44100, MaxFiles)
          /\ progress_callback = FALSE
    /\ ot_writer = NoWriter

InitApi ==
    /\ pc = "api"
    /\ marker_duration_ms = DEFAULT_MARKER_DURATION_MS
    /\ retained_silence = DEFAULT_RETAINED_SILENCE
    /\ force_mono = FALSE
    /\ output_format = "None"
    /\ file_paths = << >>
    /\ progress_callback = FALSE
    /\ ot_writer \in ApiWriters

\* validate_wav_file is about to be called on a file
InitValidate ==
    /\ pc = "validate"
    /\ marker_duration_ms = DEFAULT_MARKER_DURATION_MS
    /\ retained_silence = DEFAULT_RETAINED_SILENCE
    /\ force_mono = FALSE
    /\ output_format = "None"
    /\ file_paths = << >>
    /\ progress_callback = FALSE
    /\ ot_writer = NoWriter
    /\ call_arg \in ValidateFiles

\* the WAV files _add_cue_points is called on directly: 8-bit, 16-bit and
\* 24-bit files of three and of four frames, mono and stereo
CueWavFiles ==
    { wave_write([nchannels |-> ch, sampwidth |-> sw, framerate |-> 44100,
                  nframes |-> n],
                 Frames("export", n * ch * sw)) :
        ch \in {1, 2}, sw \in {1, 2, 3}, n \in {3, 4} }

\* the cue positions of a direct call, as <<hi, lo>>: 100, 2^32 - 1, 2^32
\* and -1
CuePositions == { <<0, 100>>, <<65535, 65535>>, <<65536, 0>>, <<-1, 65535>> }

\* _add_cue_points is about to be called on an exported WAV
InitCue ==
    /\ pc = "cue"
    /\ marker_duration_ms = DEFAULT_MARKER_DURATION_MS
    /\ retained_silence = DEFAULT_RETAINED_SILENCE
    /\ force_mono = FALSE
    /\ output_format = "None"
    /\ file_paths = << >>
    /\ progress_callback = FALSE
    /\ ot_writer = NoWriter
    /\ wav_file \in CueWavFiles
    /\ call_arg \in SeqsUpTo(CuePositions, 2)

\* FileSelectorApp.__init__: no file, an AudioProcessor with the default
\* settings, and the output format the user keeps selected
InitGui ==
    /\ pc = "idle"
    /\ marker_duration_ms = DEFAULT_MARKER_DURATION_MS
    /\ retained_silence = DEFAULT_RETAINED_SILENCE
    /\ force_mono = FALSE
    /\ output_format \in {OUTPUT_FORMAT_M8, OUTPUT_FORMAT_OCTATRACK, OUTPUT_FORMAT_BOTH}
    /\ file_paths = << >>
    /\ progress_callback = TRUE
    /\ ot_writer = NoWriter

Init ==
    /\ \/ (InitKit \/ InitApi \/ InitGui) /\ call_arg = << >> /\ wav_file = NoWav
       \/ InitValidate /\ wav_file = NoWav
       \/ InitCue
    /\ result = "none"
    /\ i = 0
    /\ target_channels = 0
    /\ marker = EmptySegment
    /\ retain_silence = EmptySegment
    /\ concatenated_audio = EmptySegment
    /\ cue_positions = << >>
    /\ chunks = << >>
    /\ processed_audio = EmptySegment
    /\ ot_file = << >>
    /\ total_files = Len(file_paths)
    /\ progress_calls = << >>
    /\ dialogs = << >>
    /\ app = CASE pc = "api" -> "writer"
               [] pc = "idle" -> "idle"
               [] pc = "validate" -> "utils"
               [] pc = "cue" -> "processor"
               [] OTHER -> "none"
    /\ file_names = << >>
    /\ buttons_enabled = TRUE
    /\ after_queue = << >>
    /\ progress_bar = <<0, 0>>
    /\ status_label = Message(STATUS_READY, << >>)

(***************************************************************************)
(* concatenate_audio_files.                                                *)
(***************************************************************************)
\* output_format once None is replaced by the M8 default
Format ==
    IF output_format = "None" THEN OUTPUT_FORMAT_M8 ELSE output_format

\* lines 116-137, the first file: the target channel count, the marker and
\* the pad, the marker appended and its frame count recorded
FirstFileSetup(tc, mk, rs) ==
    [target_channels |-> tc, marker |-> mk, retain_silence |-> rs,
     concatenated_audio |-> append(concatenated_audio, mk),
     cue_positions |-> Append(cue_positions, SampleCount(mk) \div mk.channels)]

FirstFile(loaded, tc) ==
    FirstFileSetup(tc,
                   SetChannels(Silent(marker_duration_ms, loaded.frame_rate), tc),
                   SetChannels(Silent(retained_silence, loaded.frame_rate), tc))

\* the locals after "if i == 0: ..."
Setup(loaded) ==
    IF i = 0 THEN FirstFile(loaded, IF force_mono THEN 1 ELSE loaded.channels)
    ELSE [target_channels |-> target_channels, marker |-> marker,
          retain_silence |-> retain_silence,
          concatenated_audio |-> concatenated_audio,
          cue_positions |-> cue_positions]

\* a loop that appends every file with the channels it has
Convert_keeps_channels(audio, tc) == audio

\* lines 139-141: the conversion to the target channel count
Convert(audio, tc) ==
    IF audio.channels # tc THEN SetChannels(audio, tc) ELSE audio

\* lines 146-154: the processed audio appended, the frame position
\* recorded, the marker appended
AppendProcessed(s, ps, concat) ==
    [target_channels |-> s.target_channels, marker |-> s.marker,
     retain_silence |-> s.retain_silence,
     chunks |-> ps.chunks, processed_audio |-> ps.audio,
     concatenated_audio |-> append(concat, s.marker),
     cue_positions |-> Append(s.cue_positions, _calculate_frame_position(concat))]

\* an iteration that appends no marker after the last file
Iteration_no_final_marker(s, ps) ==
    IF i + 1 = total_files
    THEN [AppendProcessed(s, ps, append(s.concatenated_audio, ps.audio))
            EXCEPT !.concatenated_audio = append(s.concatenated_audio, ps.audio)]
    ELSE AppendProcessed(s, ps, append(s.concatenated_audio, ps.audio))

\* lines 143-154: the locals at the end of the iteration
Iteration(s, ps) ==
    AppendProcessed(s, ps, append(s.concatenated_audio, ps.audio))

Process(file, loaded, s) ==
    Iteration(s, _process_silence(file, Convert(loaded, s.target_channels),
                                  s.retain_silence, retained_silence))

\* processed_audio of the file at 1-based position k of the list, in frames
ProcessedFrames(k) ==
    _process_silence(file_paths[k],
                     Convert(from_wav(file_paths[k]), target_channels),
                     retain_silence, retained_silence).audio.frames

RECURSIVE SumProcessed(_)
SumProcessed(k) == IF k = 0 THEN 0 ELSE SumProcessed(k - 1) + ProcessedFrames(k)

\* the body of the loop for the file at 0-based index i, once it loaded
LoopBody(file) == Process(file, from_wav(file), Setup(from_wav(file)))

\* messagebox.showerror / showinfo(title, ...): the box is shown by the
\* thread that runs the call
messagebox(title) ==
    Append(dialogs, [title |-> title,
                     thread |-> IF app = "merging" THEN "worker" ELSE "caller"])

\* a loop that reports the file's one-based number
loop_progress_one_based(index, total) == <<index + 1, total>>

\* progress_callback(i, total_files) in the loop
loop_progress(index, total) == <<index, total>>

\* progress_callback(total_files, total_files) after the loop
final_progress(total) == <<total, total>>

\* FileSelectorApp._update_progress(current, total), the callback the GUI
\* supplies: the update of the widgets is handed to the main thread
_update_progress(call) ==
    IF app = "merging"
    THEN Append(after_queue, [fn |-> "_update_ui_elements", arg |-> call])
    ELSE after_queue

\* lines 100-103: the loop takes the next file and reports progress
Progress ==
    /\ pc = "loop"
    /\ i < Len(file_paths)
    /\ IF progress_callback
       THEN /\ progress_calls' = Append(progress_calls, loop_progress(i, total_files))
            /\ after_queue' = _update_progress(loop_progress(i, total_files))
       ELSE UNCHANGED <<progress_calls, after_queue>>
    /\ pc' = "file"
    /\ UNCHANGED <<result, config_vars, loop_vars, wav_file, ot_file, ot_writer,
                   dialogs, app, file_names, buttons_enabled, progress_bar, status_label>>

\* a loop that skips a file it cannot load and goes on with the next one
LoadFailsSkipsFile ==
    /\ pc = "file"
    /\ ~file_paths[i + 1].loads
    /\ i' = i + 1
    /\ pc' = "loop"
    /\ UNCHANGED <<result, config_vars, target_channels, marker, retain_silence,
                   concatenated_audio, cue_positions, chunks, processed_audio,
                   wav_file, ot_file, ot_writer, report_vars, gui_vars>>

\* AudioSegment.from_wav raises: the error box is shown and False returned
LoadFails ==
    /\ pc = "file"
    /\ ~file_paths[i + 1].loads
    /\ dialogs' = messagebox("File Load Error")
    /\ pc' = "done"
    /\ result' = "False"
    /\ UNCHANGED <<config_vars, loop_vars, wav_file, ot_file, ot_writer,
                   progress_calls, gui_vars>>

\* the rest of one iteration of the loop: the file loads and is processed
ProcessFile ==
    /\ pc = "file"
    /\ file_paths[i + 1].loads
    /\ \E b \in {LoopBody(file_paths[i + 1])} :
           /\ target_channels' = b.target_channels
           /\ marker' = b.marker
           /\ retain_silence' = b.retain_silence
           /\ chunks' = b.chunks
           /\ processed_audio' = b.processed_audio
           /\ concatenated_audio' = b.concatenated_audio
           /\ cue_positions' = b.cue_positions
    /\ i' = i + 1
    /\ pc' = "loop"
    /\ UNCHANGED <<result, config_vars, wav_file, ot_file, ot_writer,
                   report_vars, gui_vars>>

\* lines 156-158: the loop is over and progress is reported as complete
LoopEnds ==
    /\ pc = "loop"
    /\ i = Len(file_paths)
    /\ IF progress_callback
       THEN /\ progress_calls' = Append(progress_calls, final_progress(total_files))
            /\ after_queue' = _update_progress(final_progress(total_files))
       ELSE UNCHANGED <<progress_calls, after_queue>>
    /\ pc' = "export"
    /\ UNCHANGED <<result, config_vars, loop_vars, wav_file, ot_file, ot_writer,
                   dialogs, app, file_names, buttons_enabled, progress_bar, status_label>>

\* a dispatch that appends the cue chunk whatever the format
AfterExportAlwaysCue == "cue"

\* the stage after a successful export, and after the cue stage
AfterExport ==
    IF Format \in {OUTPUT_FORMAT_M8, OUTPUT_FORMAT_BOTH} THEN "cue"
    ELSE IF Format \in {OUTPUT_FORMAT_OCTATRACK, OUTPUT_FORMAT_BOTH} THEN "ot"
    ELSE "success"

\* a dispatch that skips the .ot stage after the cue stage
AfterCueSkipsOt == "success"

AfterCue ==
    IF Format \in {OUTPUT_FORMAT_OCTATRACK, OUTPUT_FORMAT_BOTH} THEN "ot"
    ELSE "success"

\* _export_audio writes the WAV: the 16-bit samples of the kit
ExportAudio ==
    /\ pc = "export"
    /\ wav_file' = wave_write([nchannels |-> concatenated_audio.channels,
                               sampwidth |-> 2,
                               framerate |-> concatenated_audio.frame_rate,
                               nframes |-> concatenated_audio.frames],
                              Frames("kit", 2 * SampleCount(concatenated_audio)))
    /\ pc' = AfterExport
    /\ UNCHANGED <<result, config_vars, loop_vars, ot_file, ot_writer,
                   report_vars, gui_vars>>

\* audio.export raises: the error box is shown and False returned
ExportAudioFails ==
    /\ pc = "export"
    /\ dialogs' = messagebox("Export Error")
    /\ pc' = "done"
    /\ result' = "False"
    /\ UNCHANGED <<config_vars, loop_vars, wav_file, ot_file, ot_writer,
                   progress_calls, gui_vars>>

\* the cue_positions _add_cue_points is given: those of the kit, or those
\* of a direct call
CueArgs == IF app = "processor" THEN call_arg ELSE Halves(cue_positions)

\* _add_cue_points reads the WAV, builds the cue chunk and writes the WAV
\* again with the cue chunk after the frames; a direct call returns True
AddCuePoints ==
    /\ pc = "cue"
    /\ ~cue_pack_fails(CueArgs)
    /\ \E r \in {wave_read(wav_file)} :
           wav_file' = [wave_write(r, r.data) EXCEPT !.extra = cue_chunk(CueArgs)]
    /\ IF app = "processor"
       THEN pc' = "done" /\ result' = "True"
       ELSE pc' = AfterCue /\ result' = result
    /\ UNCHANGED <<config_vars, loop_vars, ot_file, ot_writer, report_vars, gui_vars>>

\* reading the WAV or packing a cue point raises in _add_cue_points: the
\* error box is shown and False returned
AddCuePointsFails ==
    /\ pc = "cue"
    /\ dialogs' = messagebox("Cue Point Error")
    /\ pc' = "done"
    /\ result' = "False"
    /\ UNCHANGED <<config_vars, loop_vars, wav_file, ot_file, ot_writer,
                   progress_calls, gui_vars>>

\* the writer _generate_ot_file constructs
KitWriter ==
    OctatrackWriter(concatenated_audio.frame_rate,
                    SampleCount(concatenated_audio) \div concatenated_audio.channels,
                    DEFAULT_TEMPO, DEFAULT_GAIN, DEFAULT_LOOP_TYPE,
                    DEFAULT_STRETCH, DEFAULT_QUANTIZE)

\* the loop of _generate_ot_file from 1-based cue index k on: the writer
\* when the loop ends or add_slice raises
RECURSIVE AddKitSlices(_, _, _)
AddKitSlices(w, cues, k) ==
    IF k > Len(cues) - 1 THEN [raised |-> FALSE, writer |-> w]
    ELSE IF add_slice_raises(w) THEN [raised |-> TRUE, writer |-> w]
    ELSE AddKitSlices(add_slice(w, cues[k], cues[k + 1], << >>), cues, k + 1)

\* _generate_ot_file adds the slices and the writer writes the .ot file
GenerateOtFile ==
    /\ pc = "ot"
    /\ \E r \in {AddKitSlices(KitWriter, cue_positions, 1)} :
           /\ ~r.raised
           /\ ~write_fails(r.writer, TRUE)
           /\ ot_writer' = r.writer
           /\ ot_file' = write_data(r.writer)
    /\ pc' = "success"
    /\ UNCHANGED <<result, config_vars, loop_vars, wav_file, report_vars, gui_vars>>

\* add_slice raises in _generate_ot_file: the error box is shown and False
\* returned, write() is never called
GenerateOtFileTooManySlices ==
    /\ pc = "ot"
    /\ \E r \in {AddKitSlices(KitWriter, cue_positions, 1)} :
           /\ r.raised
           /\ ot_writer' = r.writer
    /\ dialogs' = messagebox("Octatrack File Error")
    /\ pc' = "done"
    /\ result' = "False"
    /\ UNCHANGED <<config_vars, loop_vars, wav_file, ot_file, progress_calls, gui_vars>>

\* write() returns False in _generate_ot_file, which returns False
GenerateOtFileWriteFails ==
    /\ pc = "ot"
    /\ \E r \in {AddKitSlices(KitWriter, cue_positions, 1)} :
           /\ ~r.raised
           /\ \E path_ok \in BOOLEAN : write_fails(r.writer, path_ok)
           /\ ot_writer' = r.writer
    /\ pc' = "done"
    /\ result' = "False"
    /\ UNCHANGED <<config_vars, loop_vars, wav_file, ot_file, report_vars, gui_vars>>

\* _show_success_message, then return True
ShowSuccess ==
    /\ pc = "success"
    /\ dialogs' = messagebox(MSG_SUCCESS_TITLE)
    /\ pc' = "done"
    /\ result' = "True"
    /\ UNCHANGED <<config_vars, loop_vars, wav_file, ot_file, ot_writer,
                   progress_calls, gui_vars>>

(***************************************************************************)
(* Direct use of an OctatrackWriter.                                       *)
(***************************************************************************)
\* what the user passes to the next add_slice: chosen freely for the first
\* MaxApiSlices calls, then (for the long-run writer only) the next slice of
\* 1000 frames
NextSliceArgs(w) ==
    IF Len(w.slices) < MaxApiSlices THEN ApiSliceArgs
    ELSE IF [w EXCEPT !.slices = << >>] = LongRunWriter
    THEN { <<Len(w.slices) * 1000, (Len(w.slices) + 1) * 1000, << >> >> }
    ELSE { }

ApiAddSlice ==
    /\ pc = "api"
    /\ ~add_slice_raises(ot_writer)
    /\ \E a \in NextSliceArgs(ot_writer) :
          ot_writer' = add_slice(ot_writer, a[1], a[2], a[3])
    /\ UNCHANGED <<pc, result, config_vars, loop_vars, wav_file, ot_file,
                   report_vars, gui_vars>>

\* add_slice raises ValueError
ApiAddSliceRaises ==
    /\ pc = "api"
    /\ add_slice_raises(ot_writer)
    /\ result' = "ValueError"
    /\ UNCHANGED <<pc, config_vars, loop_vars, wav_file, ot_file, ot_writer,
                   report_vars, gui_vars>>

\* write() returns True
ApiWrite ==
    /\ pc = "api"
    /\ ~write_fails(ot_writer, TRUE)
    /\ ot_file' = write_data(ot_writer)
    /\ result' = "True"
    /\ pc' = "done"
    /\ UNCHANGED <<config_vars, loop_vars, wav_file, ot_writer, report_vars, gui_vars>>

\* write() returns False
ApiWriteFails ==
    /\ pc = "api"
    /\ \E path_ok \in BOOLEAN : write_fails(ot_writer, path_ok)
    /\ result' = "False"
    /\ pc' = "done"
    /\ UNCHANGED <<config_vars, loop_vars, wav_file, ot_file, ot_writer,
                   report_vars, gui_vars>>

(***************************************************************************)
(* FileSelectorApp: the handlers of the main thread and the worker thread  *)
(* that runs concatenate_audio_files.                                      *)
(***************************************************************************)
\* a < b for strings
RECURSIVE StrLess(_, _)
StrLess(a, b) ==
    IF b = << >> THEN FALSE
    ELSE IF a = << >> THEN TRUE
    ELSE IF a[1] # b[1] THEN a[1] < b[1]
    ELSE StrLess(Tail(a), Tail(b))

\* list.sort(key=lambda x: x[0].lower()) on (name, path) pairs: stable
RECURSIVE SortPaired(_)
SortPaired(pairs) ==
    IF pairs = << >> THEN << >>
    ELSE LET x == pairs[Len(pairs)]
             sorted == SortPaired(SubSeq(pairs, 1, Len(pairs) - 1))
             before == SelectSeq(sorted, LAMBDA y : ~StrLess(lower(x[1]), lower(y[1])))
             after == SelectSeq(sorted, LAMBDA y : StrLess(lower(x[1]), lower(y[1])))
         IN before \o <<x>> \o after

\* list(zip(self.file_names, self.file_paths))
files_paired == [k \in 1..Len(file_names) |-> <<file_names[k], file_paths[k]>>]

\* an exchange that only copies entry b over entry a
Swap_copies(list, a, b) == [list EXCEPT ![a] = list[b]]

\* list[a], list[b] = list[b], list[a]
Swap(list, a, b) == [list EXCEPT ![a] = list[b], ![b] = list[a]]

\* the selections the file dialog can return
DialogSelections ==
    { sel \in SeqsUpTo(GuiDisk, MaxGuiFiles) :
        sel # << >> /\ \A a, b \in 1..Len(sel) : a # b => sel[a] # sel[b] }

\* select_files: the list is replaced by the valid files of the selection
select_files ==
    /\ app = "idle"
    /\ buttons_enabled
    /\ \E files \in DialogSelections :
          \E valid \in {SelectSeq(files, LAMBDA f : validate_wav_file(f.disk)[1])} :
             /\ file_names' = [k \in 1..Len(valid) |-> valid[k].name]
             /\ file_paths' = [k \in 1..Len(valid) |-> valid[k].path]
    /\ UNCHANGED <<processor_vars, call_vars, app, buttons_enabled, after_queue,
                   progress_bar, status_label>>

\* clear_files, from its button
clear_files ==
    /\ app = "idle"
    /\ buttons_enabled
    /\ file_names' = << >>
    /\ file_paths' = << >>
    /\ UNCHANGED <<processor_vars, call_vars, app, buttons_enabled, after_queue,
                   progress_bar, status_label>>

\* move_file_up with an entry selected: if it is not the first, it is
\* swapped with the one above
move_file_up ==
    /\ app = "idle"
    /\ buttons_enabled
    /\ \E index \in 0..(Len(file_names) - 1) :
          IF index = 0
          THEN UNCHANGED <<file_names, file_paths>>
          ELSE /\ file_names' = Swap(file_names, index + 1, index)
               /\ file_paths' = Swap(file_paths, index + 1, index)
    /\ UNCHANGED <<processor_vars, call_vars, app, buttons_enabled, after_queue,
                   progress_bar, status_label>>

\* move_file_down with an entry selected: if it is not the last, it is
\* swapped with the one below
move_file_down ==
    /\ app = "idle"
    /\ buttons_enabled
    /\ \E index \in 0..(Len(file_names) - 1) :
          IF index >= Len(file_names) - 1
          THEN UNCHANGED <<file_names, file_paths>>
          ELSE /\ file_names' = Swap(file_names, index + 1, index + 2)
               /\ file_paths' = Swap(file_paths, index + 1, index + 2)
    /\ UNCHANGED <<processor_vars, call_vars, app, buttons_enabled, after_queue,
                   progress_bar, status_label>>

\* sort_files: both lists are replaced by new lists sorted by lower-case name
sort_files ==
    /\ app = "idle"
    /\ buttons_enabled
    /\ file_names # << >>
    /\ \E sorted \in {SortPaired(files_paired)} :
          /\ file_names' = [k \in 1..Len(sorted) |-> sorted[k][1]]
          /\ file_paths' = [k \in 1..Len(sorted) |-> sorted[k][2]]
    /\ UNCHANGED <<processor_vars, call_vars, app, buttons_enabled, after_queue,
                   progress_bar, status_label>>

\* _on_drop with tkinterdnd2 installed: a dropped file that is valid and
\* not yet listed is appended to the lists in place; the handler is bound
\* to the list box and does not depend on the state of the buttons
_on_drop ==
    /\ app \in {"idle", "merging"}
    /\ \E f \in GuiDisk :
          /\ endswith(lower(f.disk.path), WAV_EXTENSION)
          /\ validate_wav_file(f.disk)[1]
          /\ \A k \in 1..Len(file_paths) : file_paths[k] # f.path
          /\ file_names' = Append(file_names, f.name)
          /\ file_paths' = Append(file_paths, f.path)
    /\ UNCHANGED <<processor_vars, call_vars, app, buttons_enabled, after_queue,
                   progress_bar, status_label>>

\* the answers of filedialog.asksaveasfilename: cancelled, a file in a
\* directory that cannot be written, a file in a writable directory
OutputFiles ==
    { [chosen |-> FALSE, writable |-> FALSE],
      [chosen |-> TRUE, writable |-> FALSE],
      [chosen |-> TRUE, writable |-> TRUE] }

\* check_directory_writable(os.path.dirname(output_file))
check_directory_writable(output_file) == output_file.writable

\* buttons that stay enabled whatever is asked
_set_buttons_enabled_always(enabled) == TRUE

\* _set_buttons_enabled(enabled): the state all seven buttons are given
_set_buttons_enabled(enabled) == enabled

\* a message box of the main thread; nothing else changes
MainThreadBox(title) ==
    /\ dialogs' = << [title |-> title, thread |-> "main"] >>
    /\ UNCHANGED <<config_vars, pc, result, loop_vars, wav_file, ot_file, ot_writer,
                   progress_calls, gui_vars>>

\* _start_merge_thread(output_file): the buttons are disabled and the
\* worker thread enters concatenate_audio_files with self.file_paths, the
\* list object the handlers go on using; output_file is a new file
_start_merge_thread(output_file) ==
    /\ buttons_enabled' = _set_buttons_enabled(FALSE)
    /\ progress_bar' = <<0, 0>>
    /\ status_label' = Message(STATUS_PROCESSING, <<1, Len(file_paths)>>)
    /\ app' = "merging"
    /\ call_arg' = output_file
    /\ pc' = "loop"
    /\ result' = "none"
    /\ total_files' = Len(file_paths)
    /\ i' = 0
    /\ target_channels' = 0
    /\ marker' = EmptySegment
    /\ retain_silence' = EmptySegment
    /\ concatenated_audio' = EmptySegment
    /\ cue_positions' = << >>
    /\ chunks' = << >>
    /\ processed_audio' = EmptySegment
    /\ wav_file' = NoWav
    /\ ot_file' = << >>
    /\ ot_writer' = NoWriter
    /\ progress_calls' = << >>
    /\ dialogs' = << >>
    /\ UNCHANGED <<marker_duration_ms, retained_silence, force_mono, output_format,
                   progress_callback, file_paths, file_names, after_queue>>

\* merge_files, the command of the Merge button: without a file a warning
\* is shown; else the output file is asked for, and the merge is started
\* if one is chosen and its directory can be written
merge_files ==
    /\ app \in {"idle", "merging"}
    /\ buttons_enabled
    /\ IF file_paths = << >>
       THEN MainThreadBox("No Files Selected")
       ELSE \E output_file \in OutputFiles :
               IF ~output_file.chosen
               THEN UNCHANGED vars
               ELSE IF ~check_directory_writable(output_file)
               THEN MainThreadBox("Permission Denied")
               ELSE _start_merge_thread(output_file)

\* an operation of the loop body raises in a merge (set_channels cannot
\* convert between two multi-channel layouts, memory runs out): the
\* exception leaves concatenate_audio_files
ProcessingRaises ==
    /\ app = "merging"
    /\ pc = "file"
    /\ file_paths[i + 1].loads
    /\ pc' = "raised"
    /\ UNCHANGED <<result, config_vars, loop_vars, wav_file, ot_file, ot_writer,
                   report_vars, gui_vars>>

\* a worker that lets the exception end the thread
process_dies ==
    /\ app = "merging"
    /\ pc = "raised"
    /\ pc' = "idle"
    /\ UNCHANGED <<result, config_vars, loop_vars, wav_file, ot_file, ot_writer,
                   report_vars, gui_vars>>

\* process() on the worker thread catches the exception:
\* _on_merge_error(str(e)) is handed to the main thread
process_catches ==
    /\ app = "merging"
    /\ pc = "raised"
    /\ after_queue' = Append(after_queue, [fn |-> "_on_merge_error", arg |-> "str(e)"])
    /\ pc' = "idle"
    /\ UNCHANGED <<result, config_vars, loop_vars, wav_file, ot_file, ot_writer,
                   report_vars, app, file_names, buttons_enabled, progress_bar,
                   status_label>>

\* process() on the worker thread after concatenate_audio_files returned:
\* _on_merge_complete(success) is handed to the main thread
process_returns ==
    /\ app = "merging"
    /\ pc = "done"
    /\ after_queue' = Append(after_queue, [fn |-> "_on_merge_complete", arg |-> result])
    /\ pc' = "idle"
    /\ UNCHANGED <<result, config_vars, loop_vars, wav_file, ot_file, ot_writer,
                   report_vars, app, file_names, buttons_enabled, progress_bar, status_label>>

\* the main loop runs _update_ui_elements(current, total, progress)
_update_ui_elements ==
    /\ after_queue # << >>
    /\ Head(after_queue).fn = "_update_ui_elements"
    /\ progress_bar' = Head(after_queue).arg
    /\ status_label' =
           IF Head(after_queue).arg[1] < Head(after_queue).arg[2]
           THEN Message(STATUS_PROCESSING,
                        <<Head(after_queue).arg[1] + 1, Head(after_queue).arg[2]>>)
           ELSE Message(STATUS_COMPLETE, << >>)
    /\ after_queue' = Tail(after_queue)
    /\ UNCHANGED <<config_vars, call_vars, app, file_names, buttons_enabled>>

\* a completion handler that clears the list whatever the merge reported
_on_merge_complete_always_clears ==
    /\ after_queue # << >>
    /\ Head(after_queue).fn = "_on_merge_complete"
    /\ after_queue' = Tail(after_queue)
    /\ buttons_enabled' = TRUE
    /\ progress_bar' = <<0, 0>>
    /\ status_label' = Message(STATUS_READY, << >>)
    /\ app' = "idle"
    /\ file_names' = << >> /\ file_paths' = << >>
    /\ UNCHANGED <<processor_vars, call_vars>>

\* the main loop runs _on_merge_complete(success): the buttons are enabled
\* again and the list is cleared after a success
_on_merge_complete ==
    /\ after_queue # << >>
    /\ Head(after_queue).fn = "_on_merge_complete"
    /\ after_queue' = Tail(after_queue)
    /\ buttons_enabled' = _set_buttons_enabled(TRUE)
    /\ progress_bar' = <<0, 0>>
    /\ status_label' = Message(STATUS_READY, << >>)
    /\ app' = "idle"
    /\ IF Head(after_queue).arg = "True"
       THEN file_names' = << >> /\ file_paths' = << >>
       ELSE UNCHANGED <<file_names, file_paths>>
    /\ UNCHANGED <<processor_vars, call_vars>>

\* the main loop runs _on_merge_error(error_message): the buttons are
\* enabled again, the error box is shown and the list is kept
_on_merge_error ==
    /\ after_queue # << >>
    /\ Head(after_queue).fn = "_on_merge_error"
    /\ after_queue' = Tail(after_queue)
    /\ buttons_enabled' = _set_buttons_enabled(TRUE)
    /\ progress_bar' = <<0, 0>>
    /\ status_label' = Message(STATUS_READY, << >>)
    /\ dialogs' = Append(dialogs, [title |-> "Processing Error", thread |-> "main"])
    /\ app' = "idle"
    /\ UNCHANGED <<config_vars, pc, result, loop_vars, wav_file, ot_file, ot_writer,
                   progress_calls, file_names>>

\* validate_wav_file(file_path) is called and returns: result is "True"
\* for (True, None), else the error message
validate_call ==
    /\ pc = "validate"
    /\ \E r \in {validate_wav_file(call_arg)} :
          result' = IF r[1] THEN "True" ELSE r[2].text
    /\ pc' = "done"
    /\ UNCHANGED <<config_vars, loop_vars, wav_file, ot_file, ot_writer,
                   report_vars, gui_vars>>

Next ==
    \/ Progress
    \/ LoadFails
    \/ ProcessFile
    \/ LoopEnds
    \/ ExportAudio
    \/ ExportAudioFails
    \/ AddCuePoints
    \/ AddCuePointsFails
    \/ GenerateOtFile
    \/ GenerateOtFileTooManySlices
    \/ GenerateOtFileWriteFails
    \/ ShowSuccess
    \/ ApiAddSlice
    \/ ApiAddSliceRaises
    \/ ApiWrite
    \/ ApiWriteFails
    \/ select_files
    \/ clear_files
    \/ move_file_up
    \/ move_file_down
    \/ sort_files
    \/ _on_drop
    \/ merge_files
    \/ process_returns
    \/ _update_ui_elements
    \/ _on_merge_complete
    \/ validate_call
    \/ ProcessingRaises
    \/ process_catches
    \/ _on_merge_error

Spec == Init /\ [][Next]_vars

\* the steps of the thread that runs concatenate_audio_files and process()
\* (a list of at most MaxGuiFiles files never holds more slices than an .ot
\* file takes)
WorkerStep ==
    \/ Progress \/ LoadFails \/ ProcessFile \/ LoopEnds
    \/ ExportAudio \/ ExportAudioFails
    \/ AddCuePoints \/ AddCuePointsFails
    \/ GenerateOtFile \/ GenerateOtFileWriteFails
    \/ ShowSuccess
    \/ ProcessingRaises \/ process_catches \/ process_returns

\* the main loop runs the callback at the head of the after() queue
MainLoopStep == _update_ui_elements \/ _on_merge_complete \/ _on_merge_error

\* the worker thread takes its next step, whichever it is: a step of
\* WorkerStep, stated by the position it leaves (at every position of the
\* worker one of these steps is enabled)
WorkerMoves ==
    /\ app = "merging"
    /\ pc \in {"loop", "file", "export", "cue", "ot", "success", "done", "raised"}
    /\ pc' \in {"loop", "file", "export", "cue", "ot", "success", "done", "raised",
                "idle"}
    /\ pc' # pc

\* the steps of the user at the window
UserStep ==
    \/ select_files \/ clear_files \/ move_file_up \/ move_file_down
    \/ sort_files \/ _on_drop \/ merge_files

\* a session at the window
GuiInit == Init /\ app = "idle"

GuiNext == UserStep \/ WorkerStep \/ MainLoopStep

\* a session in which the worker thread keeps running and the event loop
\* keeps running the queued callbacks
FairSpec ==
    GuiInit /\ [][GuiNext]_vars /\ WF_pc(WorkerMoves) /\ WF_vars(MainLoopStep)

(***************************************************************************)
(* Reading the files back.                                                 *)
(***************************************************************************)
\* the big-endian 16-bit value at a file offset
BE16At(data, offset) == data[offset + 1] * 256 + data[offset + 2]
\* the big-endian 32-bit value at a file offset, as <<hi, lo>>
BE32At(data, offset) == <<BE16At(data, offset), BE16At(data, offset + 2)>>
\* the little-endian 32-bit value at a file offset (below 2^31)
LE32At(data, offset) ==
    data[offset + 1] + 256 * data[offset + 2] + 65536 * data[offset + 3]
        + 16777216 * data[offset + 4]
\* the loop has run over every file of a non-empty list of files that hold
\* audio
LoopDone ==
    /\ pc \notin {"loop", "file", "api"}
    /\ i = Len(file_paths)
    /\ i >= 1
    /\ \A k \in 1..Len(file_paths) : file_paths[k].frames > 0

(***************************************************************************)
(* Properties.                                                             *)
(***************************************************************************)
\* C1: once concatenate_audio_files has run its loop over N >= 1 files that
\* all loaded (each holding at least one frame), whatever marker_duration_ms and retained_silence are (0
\* included), there are N + 1 cue positions, each greater than the one
\* before, and the first is the marker's frame count.
C1_CuesStrictlyIncreasing ==
    LoopDone =>
        /\ Len(cue_positions) = Len(file_paths) + 1
        /\ \A j \in 1..(Len(cue_positions) - 1) :
              cue_positions[j] < cue_positions[j + 1]
        /\ cue_positions[1] = marker.frames

\* C2: whenever the splitter gave _process_silence a non-empty chunk list,
\* whatever the length of the pad, the segment it returns has as many frames
\* as the chunks together plus one pad between each two of them.
C2_RejoinFrameCount ==
    (pc = "loop" /\ i >= 1 /\ chunks # << >>) =>
        processed_audio.frames =
            SumSeq(chunks) + retain_silence.frames * (Len(chunks) - 1)

\* C3: the chunk _add_cue_points appends for N cue positions is 'cue ', the
\* size 4 + 24 N, the count N, then N records of 24 bytes with ids 1..N in
\* order, each holding little-endian (id, position, 'data', 0, 0, sample
\* offset) with position and sample offset both the cue position: reading
\* the chunk back gives the cue positions in their order.
C3_CueChunkLayout ==
    (wav_file.extra # << >> /\ app # "processor") =>
        /\ Len(wav_file.extra) = 8 + 4 + 24 * Len(cue_positions)
        /\ SubSeq(wav_file.extra, 1, 4) = <<99, 117, 101, 32>>
        /\ LE32At(wav_file.extra, 4) = 4 + 24 * Len(cue_positions)
        /\ LE32At(wav_file.extra, 8) = Len(cue_positions)
        /\ \A j \in 1..Len(cue_positions) :
              /\ LE32At(wav_file.extra, 12 + 24 * (j - 1)) = j
              /\ LE32At(wav_file.extra, 12 + 24 * (j - 1) + 4) = cue_positions[j]
              /\ SubSeq(wav_file.extra, 12 + 24 * (j - 1) + 9,
                        12 + 24 * (j - 1) + 12) = <<100, 97, 116, 97>>
              /\ LE32At(wav_file.extra, 12 + 24 * (j - 1) + 12) = 0
              /\ LE32At(wav_file.extra, 12 + 24 * (j - 1) + 16) = 0
              /\ LE32At(wav_file.extra, 12 + 24 * (j - 1) + 20) = cue_positions[j]

\* C3 witness: a cue chunk of three cue points has been appended, the last
\* position needing more than one byte
C3_Witness ==
    /\ wav_file.extra # << >>
    /\ Len(cue_positions) = 3
    /\ cue_positions[3] > 255

\* C4: a written .ot file is 832 bytes long and begins with the 16 bytes
\* 'FORM\0\0\x03,DPS1SMPA', whatever the sample rate, the total frame count
\* (0 included), the parameters and the number of slices (0 to 64).
C4_SizeAndHeader ==
    ot_file # << >> =>
        /\ Len(ot_file) = 832
        /\ SubSeq(ot_file, 1, 16) =
              <<70, 79, 82, 77, 0, 0, 3, 44, 68, 80, 83, 49, 83, 77, 80, 65>>

\* C4 witness: a file written by a writer holding 64 slices
C4_Witness ==
    /\ ot_file # << >>
    /\ Len(ot_writer.slices) = 64

\* C5: in a written .ot file the big-endian 16-bit value at 0x33E is the sum
\* of the bytes at 0x10 .. 0x33D, modulo 65536.
C5_Checksum ==
    ot_file # << >> =>
        BE16At(ot_file, 830) = SumBytes(ot_file, 17, 830) % 65536

\* C5 witness: a file written whose byte sum exceeds 16 bits
C5_Witness ==
    /\ ot_file # << >>
    /\ SumBytes(ot_file, 17, 830) > 65535

\* C6: a writer never holds more than 64 slices; an add_slice call made
\* when 64 are stored raises, leaves the slices as they were and writes no
\* file; and when the kit's cue list would give more than 64 slices,
\* _generate_ot_file fails and no .ot file is written.
C6_AtMost64Slices ==
    [][ /\ Len(ot_writer'.slices) <= 64
        /\ (pc = "api" /\ pc' = "api" /\ Len(ot_writer.slices) = 64) =>
              /\ result' = "ValueError"
              /\ ot_writer' = ot_writer
              /\ ot_file' = << >>
        /\ (pc = "ot" /\ Len(cue_positions) - 1 > 64) =>
              /\ pc' = "done"
              /\ result' = "False"
              /\ ot_file' = << >> ]_vars

\* C6 witness: add_slice has raised on a writer that holds 64 slices
C6_Witness ==
    /\ result = "ValueError"
    /\ Len(ot_writer.slices) = 64
    /\ ot_file = << >>

\* C7 (as amended): for a kit of K <= 64 source files, _generate_ot_file adds
\* exactly K slices, slice i running from cue i to cue i + 1, so each slice
\* ends where the next starts, and every loop field is 0xFFFFFFFF.
C7_SlicesFromCues ==
    [][ (pc = "ot" /\ pc' # "ot" /\ i <= 64) =>
            /\ Len(ot_writer'.slices) = i
            /\ \A j \in 1..i :
                  /\ ot_writer'.slices[j].start = cue_positions[j]
                  /\ ot_writer'.slices[j].end = cue_positions[j + 1]
                  /\ ot_writer'.slices[j].loop = <<65535, 65535>>
            /\ \A j \in 1..(i - 1) :
                  ot_writer'.slices[j].end = ot_writer'.slices[j + 1].start ]_vars

\* C7 as stated: the same for a kit of any number K of source files.
C7_SlicesFromCuesAnyK ==
    [][ (pc = "ot" /\ pc' # "ot") =>
            /\ Len(ot_writer'.slices) = i
            /\ \A j \in 1..i :
                  /\ ot_writer'.slices[j].start = cue_positions[j]
                  /\ ot_writer'.slices[j].end = cue_positions[j + 1]
                  /\ ot_writer'.slices[j].loop = <<65535, 65535>>
            /\ \A j \in 1..(i - 1) :
                  ot_writer'.slices[j].end = ot_writer'.slices[j + 1].start ]_vars

\* C7 witness: the .ot file of a kit of 64 files has been written from 64
\* slices
C7_Witness ==
    /\ pc \in {"success", "done"}
    /\ Len(file_paths) = 64
    /\ Len(cue_positions) = 65
    /\ Len(ot_writer.slices) = 64
    /\ ot_file # << >>

\* C8: in a written .ot file the big-endian 32-bit value at 0x10 is
\* round(bpm * 6), for every tempo, whole or not.
C8_TempoRounded ==
    ot_file # << >> =>
        BE32At(ot_file, 16) = U32(RoundHalfEven(ot_writer.tempo * 6, 10))

\* C9 (as amended): in a written .ot file the fields at 0x14 and 0x18 both
\* hold bars * 384, where for total_frames > 0 and sample_rate > 0 bars is
\* (total_frames / sample_rate) * (bpm / 60) / 4 rounded to the nearest 0.25
\* and at least 0.25, and for total_frames = 0 or sample_rate = 0 bars is 1.
C9_TrimAndLoopLength ==
    ot_file # << >> =>
        \E expected \in
            { IF ot_writer.total_samples = 0 \/ ot_writer.sample_rate = 0
              THEN 384
              ELSE 96 * Max(1, RoundHalfEven(ot_writer.total_samples * ot_writer.tempo,
                                             ot_writer.sample_rate * 600)) } :
            /\ BE32At(ot_file, 20) = U32(expected)
            /\ BE32At(ot_file, 24) = U32(expected)

\* C9 as stated: for every total_frames >= 0 (and a sample rate one can
\* divide by) both fields hold bars * 384 with bars rounded to the nearest
\* 0.25 and at least 0.25, so 96 for an empty buffer.
C9_TrimAndLoopLengthFromZero ==
    (ot_file # << >> /\ ot_writer.sample_rate > 0) =>
        \E expected \in
            { 96 * Max(1, RoundHalfEven(ot_writer.total_samples * ot_writer.tempo,
                                        ot_writer.sample_rate * 600)) } :
            /\ BE32At(ot_file, 20) = U32(expected)
            /\ BE32At(ot_file, 24) = U32(expected)

\* C9 witness: a file written for 55125 frames at 44100 Hz and 120 BPM, 0.625
\* bars before rounding
C9_Witness ==
    /\ ot_file # << >>
    /\ ot_writer.total_samples = 55125
    /\ ot_writer.sample_rate = 44100
    /\ ot_writer.tempo = 1200

\* C10: in a written .ot file of N slices the stretch mode is at 0x1C, the
\* loop type at 0x20, gain + 48 (16 bits) at 0x24, quantize (one byte) at
\* 0x26, 0 at 0x28, total_frames at 0x2C, 0 at 0x30, N at 0x34, slice i as
\* (start, end, loop) at 0x38 + 12 i, all big-endian, and the slots of the
\* slice table that are not used are zero.
C10_FieldLayout ==
    ot_file # << >> =>
        /\ BE32At(ot_file, 28) = U32(ot_writer.stretch)
        /\ BE32At(ot_file, 32) = U32(ot_writer.loop_type)
        /\ BE16At(ot_file, 36) = ot_writer.gain + 48
        /\ ot_file[38 + 1] = ot_writer.quantize
        /\ BE32At(ot_file, 40) = <<0, 0>>
        /\ BE32At(ot_file, 44) = U32(ot_writer.total_samples)
        /\ BE32At(ot_file, 48) = <<0, 0>>
        /\ BE32At(ot_file, 52) = U32(Len(ot_writer.slices))
        /\ \A j \in 1..Len(ot_writer.slices) :
              /\ BE32At(ot_file, 56 + 12 * (j - 1)) = U32(ot_writer.slices[j].start)
              /\ BE32At(ot_file, 56 + 12 * (j - 1) + 4) = U32(ot_writer.slices[j].end)
              /\ BE32At(ot_file, 56 + 12 * (j - 1) + 8) = ot_writer.slices[j].loop
        /\ \A k \in (56 + 12 * Len(ot_writer.slices) + 1)..(56 + 12 * 64) :
              ot_file[k] = 0

\* C10 witness: a file written with two slices, the second with a loop point
\* of its own, a gain of 24 and a quantize of 255
C10_Witness ==
    /\ ot_file # << >>
    /\ Len(ot_writer.slices) = 2
    /\ ot_writer.slices[2].loop = <<0, 22050>>
    /\ ot_writer.gain = 24
    /\ ot_writer.quantize = 255

\* a call of concatenate_audio_files in which the list is as long as it
\* was handed over and nothing has raised
ListUntouched ==
    /\ app \in {"none", "merging"}
    /\ Len(file_paths) = total_files
    /\ pc # "raised"
    /\ \A k \in 1..Len(after_queue) : after_queue[k].fn # "_on_merge_error"

AllFilesLoad == \A k \in 1..Len(file_paths) : file_paths[k].loads

\* C11: with a progress callback and N files that all load, the callback is
\* called with (0,N), (1,N), ..., (N-1,N) and last (N,N), N+1 calls in all;
\* call (i,N) is made before file i is loaded, the last one after the last
\* file is appended and before anything is exported, and no call has
\* current above total.
C11_ProgressCalls ==
    (progress_callback /\ ListUntouched /\ AllFilesLoad) =>
        /\ \A k \in 1..Len(progress_calls) :
               /\ progress_calls[k] = <<k - 1, total_files>>
               /\ progress_calls[k][1] <= progress_calls[k][2]
        /\ Len(progress_calls) =
               CASE pc = "loop" -> i
                 [] pc = "file" -> i + 1
                 [] OTHER -> total_files + 1
        /\ pc \in {"loop", "file", "export"} => wav_file = NoWav /\ ot_file = << >>
        /\ pc = "export" => i = total_files

\* two files were merged and the callback saw (0,2), (1,2), (2,2)
C11_Witness ==
    /\ progress_callback /\ ListUntouched /\ AllFilesLoad
    /\ pc = "done" /\ result = "True"
    /\ progress_calls = <<(<<0, 2>>), (<<1, 2>>), (<<2, 2>>)>>

\* the state is that of one call of concatenate_audio_files
InCall == app \in {"none", "merging"}

\* the first file of the list that cannot be loaded (0 if all load)
FirstLoadFailure ==
    IF AllFilesLoad THEN 0
    ELSE CHOOSE k \in 1..Len(file_paths) :
             /\ ~file_paths[k].loads
             /\ \A j \in 1..(k - 1) : file_paths[j].loads

\* C12: a file that cannot be loaded aborts the operation at that file: no
\* later file is loaded, no WAV, cue chunk or .ot file is written, and the
\* call reports failure.
C12_LoadFailureAborts ==
    (ListUntouched /\ FirstLoadFailure > 0) =>
        /\ i < FirstLoadFailure
        /\ pc \in {"loop", "file", "done", "idle"}
        /\ wav_file = NoWav
        /\ ot_file = << >>
        /\ pc = "done" => result = "False" /\ i = FirstLoadFailure - 1

\* the second of two files failed to load after the first was processed
C12_Witness ==
    /\ ListUntouched /\ FirstLoadFailure = 2
    /\ pc = "done" /\ result = "False"
    /\ i = 1 /\ Len(cue_positions) = 2
    /\ wav_file = NoWav /\ ot_file = << >>

CueChunkWritten == wav_file.exists /\ wav_file.extra # << >>

OtFileWritten == ot_file # << >>

\* C13: once the audio is exported the output format alone decides the
\* writers: M8, which is also the format when none is given, appends the cue
\* chunk and writes no .ot file; Octatrack writes the .ot file and no cue
\* chunk; Both does both.
C13_FormatDecidesWriters ==
    (InCall /\ wav_file.exists) =>
        /\ CueChunkWritten => Format \in {OUTPUT_FORMAT_M8, OUTPUT_FORMAT_BOTH}
        /\ OtFileWritten => Format \in {OUTPUT_FORMAT_OCTATRACK, OUTPUT_FORMAT_BOTH}
        /\ (pc = "done" /\ result = "True") =>
               /\ CueChunkWritten <=> Format \in {OUTPUT_FORMAT_M8, OUTPUT_FORMAT_BOTH}
               /\ OtFileWritten <=> Format \in {OUTPUT_FORMAT_OCTATRACK, OUTPUT_FORMAT_BOTH}
               /\ output_format = "None" => CueChunkWritten /\ ~OtFileWritten

\* a kit was written for the Octatrack only: an .ot file and no cue chunk
C13_Witness ==
    /\ InCall /\ pc = "done" /\ result = "True"
    /\ output_format = OUTPUT_FORMAT_OCTATRACK
    /\ wav_file.exists /\ OtFileWritten /\ ~CueChunkWritten

\* the stage at which a call that returned False stopped
FailedStage ==
    IF ~wav_file.exists
    THEN IF i < Len(file_paths) THEN "load" ELSE "export"
    ELSE IF Format \in {OUTPUT_FORMAT_M8, OUTPUT_FORMAT_BOTH} /\ wav_file.extra = << >>
         THEN "cue"
         ELSE "ot"

\* the title of the error box of each stage
StageErrorTitle(stage) ==
    CASE stage = "load" -> "File Load Error"
      [] stage = "export" -> "Export Error"
      [] stage = "cue" -> "Cue Point Error"
      [] stage = "ot" -> "Octatrack File Error"

\* C14: every failure of a stage (load, export, cue chunk, .ot generation,
\* .ot write) is surfaced: when concatenate_audio_files returns False the
\* failing stage has been reported, and a failure of the .ot stage is
\* reported as such.
C14_FailureNamesStage ==
    (InCall /\ pc = "done" /\ result = "False") =>
        /\ Len(dialogs) = 1
        /\ dialogs[1].title = StageErrorTitle(FailedStage)

\* C15: while concatenate_audio_files runs on the worker thread of the GUI
\* it reaches the UI only through the progress callback: the worker thread
\* performs no toolkit operation, hence shows no message box, on any path.
C15_WorkerShowsNoBox ==
    \A k \in 1..Len(dialogs) : dialogs[k].thread # "worker"

\* C16: a running merge assembles the file list as it stood when the merge
\* started: no UI event during the merge adds a file to the ones processed,
\* so never more files are processed than the total given to the progress
\* callback, and once the loop is over exactly that many were processed
\* and the callback never saw current above total.
C16_MergeAssemblesStartList ==
    app = "merging" =>
        /\ i <= total_files
        /\ pc \notin {"loop", "file"} => i = total_files
        /\ \A k \in 1..Len(progress_calls) :
               /\ progress_calls[k][1] <= progress_calls[k][2]
               /\ progress_calls[k] = <<k - 1, total_files>>

\* the channel count fixed at the first file
FirstFileChannels == IF force_mono THEN 1 ELSE from_wav(file_paths[1]).channels

\* C17: the target channel count is fixed when the first file is processed,
\* 1 with force_mono and that file's channel count otherwise, and never
\* changes; every later file is converted to it, so the buffer holds a
\* whole number of frames of that many channels, and each cue position is
\* the number of samples in the buffer so far divided by the target channel
\* count.
C17_TargetChannelsFixed ==
    (InCall /\ i >= 1) =>
        /\ target_channels = FirstFileChannels
        /\ marker.channels = target_channels
        /\ processed_audio.channels = target_channels
        /\ concatenated_audio.channels = target_channels
        /\ SampleCount(concatenated_audio) % target_channels = 0
        /\ Len(cue_positions) = i + 1
        /\ cue_positions[i + 1] * target_channels
              = SampleCount(concatenated_audio) - SampleCount(marker)
        /\ (cue_positions[i + 1] - cue_positions[i]) * target_channels
              = SampleCount(processed_audio)
                  + (IF i = 1 THEN 0 ELSE SampleCount(marker))

\* a stereo file followed a mono first file and was converted to mono
C17_Witness ==
    /\ InCall /\ i = 2 /\ ~force_mono
    /\ from_wav(file_paths[1]).channels = 1
    /\ from_wav(file_paths[2]).channels = 2
    /\ target_channels = 1
    /\ processed_audio.channels = 1 /\ processed_audio.frames > 0

\* C18: after N >= 1 files the buffer is marker + (processed_1 + marker) +
\* ... + (processed_N + marker) with one and the same marker: it holds
\* (N+1) * marker_frames + the processed frames of the N files, cue k
\* (k >= 1) is k * marker_frames + the processed frames of the first k
\* files, and the last cue is the total frame count less one marker.
C18_BufferLayout ==
    (InCall /\ i >= 1) =>
        /\ concatenated_audio.frames = (i + 1) * marker.frames + SumProcessed(i)
        /\ Len(cue_positions) = i + 1
        /\ cue_positions[1] = marker.frames
        /\ \A k \in 1..i :
               cue_positions[k + 1] = k * marker.frames + SumProcessed(k)
        /\ cue_positions[i + 1] = concatenated_audio.frames - marker.frames

\* two files with audio were merged around three markers of 11 frames
C18_Witness ==
    /\ InCall /\ i = 2 /\ pc = "done" /\ result = "True"
    /\ marker.frames = 11
    /\ ProcessedFrames(1) > 0 /\ ProcessedFrames(2) > 0
    /\ concatenated_audio.frames = 33 + ProcessedFrames(1) + ProcessedFrames(2)

\* the settings AudioProcessor() has by default
DefaultSettings ==
    /\ marker_duration_ms = DEFAULT_MARKER_DURATION_MS
    /\ retained_silence = DEFAULT_RETAINED_SILENCE
    /\ ~force_mono

\* the loop ran over the whole list, which has a file, and every file loaded
AllMerged ==
    /\ InCall /\ AllFilesLoad
    /\ pc \notin {"loop", "file"}
    /\ i = Len(file_paths) /\ i >= 1

\* len() of the first k source files, added up, in ms
RECURSIVE SumSourceMs(_)
SumSourceMs(k) ==
    IF k = 0 THEN 0 ELSE SumSourceMs(k - 1) + LenMs(from_wav(file_paths[k]))

\* the ms of leading silence split_on_silence removes from a file: what
\* exceeds keep_silence
TrimmedMs(file) ==
    IF file.shape = "lead" /\ LenMs(from_wav(file)) > LeadMs
    THEN Max(LeadMs - keep_silence, 0) ELSE 0

RECURSIVE SumTrimmedMs(_)
SumTrimmedMs(k) ==
    IF k = 0 THEN 0 ELSE SumTrimmedMs(k - 1) + TrimmedMs(file_paths[k])

ProcessedMs(k) ==
    LenMs(Segment(ProcessedFrames(k), target_channels, marker.frame_rate))

NoChunks == InCall /\ i >= 1 /\ chunks = << >>

\* C20 as stated: when the splitter gives no chunk for a file, what is
\* appended for the file is an empty buffer.
C20_NoChunksGiveEmptyBuffer ==
    NoChunks => processed_audio.frames = 0

\* C20: when the splitter gives no chunk for a file, what is appended for
\* the file is the file's audio as it was loaded and converted to the
\* target channel count, all its frames included.
C20_NoChunksGiveOriginalAudio ==
    NoChunks =>
        /\ processed_audio = Convert(from_wav(file_paths[i]), target_channels)
        /\ processed_audio.frames = file_paths[i].frames
        /\ cue_positions[i + 1] - cue_positions[i]
              = file_paths[i].frames + (IF i = 1 THEN 0 ELSE marker.frames)

\* a silent file of 160 frames gave no chunk and was appended whole
C20_Witness ==
    /\ NoChunks
    /\ file_paths[i].shape = "silent"
    /\ processed_audio.frames = 160
    /\ concatenated_audio.frames >= 160

\* C21: adding files through select_files or through a drop never removes
\* a file that is already listed and never lists a path twice: the list
\* before is the beginning of the list after, and the offered paths that
\* were already present are skipped.
C21_AddingKeepsListedFiles ==
    [][ (select_files \/ _on_drop) =>
            /\ Len(file_paths') >= Len(file_paths)
            /\ \A k \in 1..Len(file_paths) : file_paths'[k] = file_paths[k]
            /\ \A a, b \in 1..Len(file_paths') :
                   a # b => file_paths'[a] # file_paths'[b] ]_vars

\* the checks of validate_wav_file in the order the specification gives
\* them, each with the message of its failure
ValidateChecks(f) ==
    << <<endswith(lower(f.path), <<46, 119, 97, 118>>), "Not a WAV file (wrong extension)">>,
       <<f.is_file, "File does not exist">>,
       <<f.readable, "Cannot read file (permission denied)">>,
       <<f.size > 0, "File is empty">>,
       <<f.header = "ok",
         IF f.header = "wave.Error" THEN "Invalid WAV file: {}" ELSE "Cannot read file: {}">>,
       <<f.nchannels \in 1..8, "Unsupported channel count: {}">>,
       <<f.sampwidth \in 1..4, "Unsupported sample width: {} bytes">>,
       <<f.framerate \in 8000..192000, "Unsupported sample rate: {} Hz">> >>

FirstFailingCheck(f) ==
    LET failing == {k \in 1..8 : ~ValidateChecks(f)[k][1]}
    IN  IF failing = {} THEN 0 ELSE CHOOSE k \in failing : \A j \in failing : k <= j

\* C22: validate_wav_file returns (True, None) exactly when the path ends
\* in .wav in any letter case, is an existing, readable, non-empty file
\* with a parsable header, 1 to 8 channels, a sample width of 1 to 4 bytes
\* and a sample rate of 8000 to 192000 Hz; otherwise it returns False with
\* the message of the first check that fails, in the order extension,
\* existence, readability, emptiness, header, channels, sample width,
\* sample rate.
C22_ValidateFirstFailingCheck ==
    (app = "utils" /\ pc = "done") =>
        /\ validate_wav_file(call_arg)[1] <=> FirstFailingCheck(call_arg) = 0
        /\ validate_wav_file(call_arg)[1] =>
               /\ result = "True"
               /\ validate_wav_file(call_arg)[2].text = "None"
        /\ ~validate_wav_file(call_arg)[1] =>
               /\ result = ValidateChecks(call_arg)[FirstFailingCheck(call_arg)][2]
               /\ validate_wav_file(call_arg)[2].text = result

\* a file that fails the sample rate check only, at the lower limit, and a
\* file named .WAV that passes every check
C22_Witness ==
    /\ app = "utils" /\ pc = "done"
    /\ \/ /\ FirstFailingCheck(call_arg) = 8
          /\ call_arg.framerate = 7999
          /\ result = ERROR_INVALID_SAMPLE_RATE
       \/ /\ FirstFailingCheck(call_arg) = 0
          /\ call_arg.path = <<46, 87, 65, 86>>
          /\ call_arg.framerate = 192000
          /\ call_arg.nchannels = 8
          /\ result = "True"

CueRequested == Format \in {OUTPUT_FORMAT_M8, OUTPUT_FORMAT_BOTH}

OtRequested == Format \in {OUTPUT_FORMAT_OCTATRACK, OUTPUT_FORMAT_BOTH}

\* C23: the output stages run in the fixed order WAV export, cue chunk, .ot
\* file; a stage is entered only when every requested stage before it has
\* succeeded; the success box is shown only after every requested stage has
\* succeeded; and the call returns True exactly in that case, False when a
\* stage failed.
C23_StagesInOrder ==
    [][ (InCall /\ pc \in {"export", "cue", "ot", "success"} /\ pc' # pc) =>
            /\ pc = "export" => pc' \in {"cue", "ot", "success", "done"}
            /\ pc = "cue" => pc' \in {"ot", "success", "done"}
            /\ pc = "ot" => pc' \in {"success", "done"}
            /\ pc = "success" => pc' = "done"
            /\ pc = "export" => wav_file = NoWav /\ ot_file = << >>
            /\ pc' = "cue" => CueRequested /\ wav_file'.exists /\ ~CueChunkWritten'
            /\ pc' = "ot" =>
                   /\ OtRequested /\ wav_file'.exists /\ ~OtFileWritten'
                   /\ CueRequested <=> CueChunkWritten'
            /\ pc' = "success" =>
                   /\ wav_file'.exists
                   /\ CueRequested <=> CueChunkWritten'
                   /\ OtRequested <=> OtFileWritten'
                   /\ dialogs' = dialogs
            /\ pc' = "done" =>
                   /\ result' = "True" <=> pc = "success"
                   /\ result' = "False" <=> pc # "success"
                   /\ pc = "success" <=>
                          /\ Len(dialogs') = Len(dialogs) + 1
                          /\ dialogs'[Len(dialogs')].title = MSG_SUCCESS_TITLE ]_vars

\* a call for both devices returned True after the export, the cue chunk
\* and the .ot file
C23_Witness ==
    /\ InCall /\ pc = "done" /\ result = "True"
    /\ CueRequested /\ OtRequested
    /\ wav_file.exists /\ CueChunkWritten /\ OtFileWritten
    /\ dialogs[Len(dialogs)].title = MSG_SUCCESS_TITLE

\* the user interface is given back: every button enabled, the progress
\* bar at 0 and the status Ready
UiGivenBack ==
    /\ app = "idle" /\ buttons_enabled
    /\ progress_bar = <<0, 0>>
    /\ status_label = Message(STATUS_READY, << >>)

WorkerAlive == app = "merging" /\ pc # "idle"

\* C25: at most one merge worker exists at a time: the Merge button only
\* starts a worker when none is alive and no handler is pending; from
\* _start_merge_thread until the completion or error handler has run every
\* button is disabled; and a merge only starts with a file in the list and
\* an output file that was chosen in a writable directory.
C25_OneMergeAtATime ==
    [][ /\ app' = "merging" => ~buttons_enabled'
        /\ (merge_files /\ pc' # pc) =>
               /\ ~WorkerAlive /\ app = "idle" /\ after_queue = << >>
               /\ WorkerAlive' /\ pc' = "loop"
               /\ file_paths # << >> /\ total_files' >= 1
               /\ call_arg'.chosen /\ call_arg'.writable
        /\ (app = "merging" /\ buttons_enabled') =>
               (_on_merge_complete \/ _on_merge_error) ]_vars

\* a worker is alive and about to load the second file of its merge, the
\* buttons disabled
C25_Witness ==
    /\ WorkerAlive /\ ~buttons_enabled
    /\ pc = "file" /\ i = 1
    /\ call_arg = [chosen |-> TRUE, writable |-> TRUE]
    /\ file_paths # << >>

\* C26: when a merge has finished the list is cleared exactly if the merge
\* reported success: the handler of a merge that returned True empties
\* file_names and file_paths, the handler of a merge that returned False or
\* raised leaves both as they are, and no step of the worker changes them.
C26_ListClearedOnSuccessOnly ==
    [][ /\ (app = "merging" /\ app' = "idle") =>
               /\ result = "True" => file_names' = << >> /\ file_paths' = << >>
               /\ result # "True" =>
                      file_names' = file_names /\ file_paths' = file_paths
               /\ result \in {"True", "False"} <=> _on_merge_complete
               /\ result = "none" <=> _on_merge_error
        /\ (app = "merging" /\ pc' # pc) =>
               file_names' = file_names /\ file_paths' = file_paths ]_vars

\* the handler of a merge that returned False has run and the list is kept
C26_Witness ==
    /\ app = "idle" /\ pc = "idle" /\ buttons_enabled
    /\ result = "False"
    /\ file_paths # << >> /\ Len(file_names) = Len(file_paths)
    /\ dialogs # << >>

\* a position, given as <<hi, lo>>, that is no unsigned 32-bit number
OutsideU32(position) == position[1] < 0 \/ position[1] > 65535

\* C27: when a cue position does not fit an unsigned 32-bit field,
\* _add_cue_points reports failure: it shows its error box and returns
\* False, writes no wrapped or truncated value, and leaves the exported WAV
\* as it was, the chunk being built before the file is opened for writing.
C27_OverflowLeavesWavUntouched ==
    [][ (pc = "cue" /\ pc' # pc /\ \E k \in 1..Len(CueArgs) : OutsideU32(CueArgs[k])) =>
            /\ pc' = "done" /\ result' = "False"
            /\ wav_file' = wav_file
            /\ Len(dialogs') = Len(dialogs) + 1
            /\ dialogs'[Len(dialogs')].title = "Cue Point Error" ]_vars

\* a direct call with the positions 100 and 2^32 has returned False and the
\* WAV has no cue chunk
C27_Witness ==
    /\ app = "processor" /\ pc = "done" /\ result = "False"
    /\ call_arg = << <<0, 100>>, <<65536, 0>> >>
    /\ wav_file.exists /\ wav_file.extra = << >>
    /\ wav_file.riff_size = 36 + wav_file.data[2]

\* the format parameters a reader finds in the WAV
WavParams(file) == <<file.nchannels, file.sampwidth, file.framerate, file.nframes>>

\* C28: _add_cue_points changes nothing about the audio: after it the WAV
\* has the channels, sample width, sample rate and frame count it had and
\* the same frames, and when it succeeded the cue chunk, and nothing else,
\* follows the frames.
C28_CuePointsKeepAudio ==
    [][ (pc = "cue" /\ pc' # pc) =>
            /\ WavParams(wav_file') = WavParams(wav_file)
            /\ wav_file'.data = wav_file.data
            /\ wav_file'.nframes * wav_file'.nchannels * wav_file'.sampwidth
                   = wav_file'.data[2]
            /\ wav_file.extra = << >>
            /\ result' # "False" =>
                   /\ wav_file'.extra = cue_chunk(CueArgs)
                   /\ SubSeq(wav_file'.extra, 1, 4) = <<99, 117, 101, 32>>
            /\ result' = "False" => wav_file'.extra = << >> ]_vars

\* a direct call on a stereo 24-bit file of three frames has returned True:
\* 18 bytes of frames, then the chunk of one cue point
C28_Witness ==
    /\ app = "processor" /\ pc = "done" /\ result = "True"
    /\ WavParams(wav_file) = <<2, 3, 44100, 3>>
    /\ wav_file.data = <<"export", 18>>
    /\ Len(wav_file.extra) = 36

\* the bytes of the WAV on disk: the 44-byte header, the frames as written
\* (writeframes adds no pad byte), then what was written behind them
FileLength(file) == 44 + file.data[2] + Len(file.extra)

\* the offset at which the cue chunk starts
CueChunkOffset(file) == 44 + file.data[2]

\* C29: once _add_cue_points has succeeded the file is a well-formed RIFF
\* container: the RIFF size at offset 4 is the file length minus 8, so it
\* counts the cue chunk, and the cue chunk starts at an even offset behind
\* the data chunk.
C29_WellFormedRiff ==
    (wav_file.exists /\ wav_file.extra # << >>) =>
        /\ wav_file.riff_size = FileLength(wav_file) - 8
        /\ CueChunkOffset(wav_file) % 2 = 0

\* os.path.basename of a path of the disk
basename(path) == (CHOOSE f \in GuiDisk : f.path = path).name

\* the number of entries of the two lists that are the file f
Occurrences(names, paths, f) ==
    Cardinality({k \in 1..Len(paths) : paths[k] = f.path /\ names[k] = f.name})

\* C30: file_names and file_paths always have the same length and
\* file_names[i] is the base name of file_paths[i]; moving an entry up or
\* down and sorting only permute the entries, keeping each name with its
\* path; moving exchanges at most two neighbours, and moving the only entry
\* of a list changes nothing.
C30_NamesFollowPaths ==
    /\ [](app \in {"idle", "merging"} =>
             /\ Len(file_names) = Len(file_paths)
             /\ \A k \in 1..Len(file_paths) : file_names[k] = basename(file_paths[k]))
    /\ [][ (move_file_up \/ move_file_down \/ sort_files) =>
               /\ Len(file_paths') = Len(file_paths)
               /\ \A f \in GuiDisk :
                      Occurrences(file_names', file_paths', f)
                          = Occurrences(file_names, file_paths, f) ]_vars
    /\ [][ (move_file_up \/ move_file_down) =>
               /\ Len(file_paths) = 1 => file_paths' = file_paths
               /\ \/ file_paths' = file_paths /\ file_names' = file_names
                  \/ \E k \in 1..(Len(file_paths) - 1) :
                         /\ file_paths' = [file_paths EXCEPT ![k] = file_paths[k + 1],
                                                             ![k + 1] = file_paths[k]]
                         /\ file_names' = [file_names EXCEPT ![k] = file_names[k + 1],
                                                             ![k + 1] = file_names[k]] ]_vars

\* two files are listed with "h" before "K", as sorting by lower-case name
\* leaves them
C30_Witness ==
    /\ app = "idle" /\ buttons_enabled
    /\ file_names = << <<104>>, <<75>> >>
    /\ Len(file_paths) = 2
    /\ file_paths[1].frames = 441 /\ file_paths[2].frames = 80
====
